---- MODULE Spec2Model ----
(***************************************************************************)
(* Plant-Care-App: the plant store kept by App.tsx (add / water / notes /  *)
(* nickname / growth entry / delete) and the due-date and status           *)
(* computations of App.tsx, PlantCard and PlantDetailModal.                *)
(*                                                                         *)
(* Time.  A timestamp is an integer number of hours since the model epoch  *)
(* (UTC); day 0 of the epoch is 2024-01-01.  An                            *)
(* ISO string produced by toISOString() and the Date parsed back from it   *)
(* denote the same instant, so both are modelled by that integer.  A       *)
(* "YYYY-MM-DD" string (the value of an <input type="date">) is modelled   *)
(* by its day number; new Date("YYYY-MM-DD") parses it as UTC midnight.    *)
(* getDate / setDate / setHours work in the local time zone of the         *)
(* browser, which is an input of the program: a zone is a standard offset  *)
(* and an interval of instants during which daylight saving time (one hour *)
(* ahead) is in force.                                                     *)
(***************************************************************************)
EXTENDS Integers, Sequences, FiniteSets, TLC

VARIABLES
    plants,      \* App.tsx:62  useState<Plant[]>: the plants list, in order of addition
    localStorage,            \* App.tsx:78, 98  the items plants_<email>, by email
    currentUser,             \* AuthContext:40  the user of the session, NoUser is null
    usersDB,                 \* AuthContext:9-21  the localStorage item usersDB
    sortOrder,               \* App.tsx:72
    quotaExceeded,           \* whether localStorage.setItem throws (the storage is full)
    queued,      \* App.tsx:80-90  the setPlants of the load effect that is not rendered yet
    isAddModalOpen,          \* App.tsx:63
    isHealthCheckModalOpen,  \* App.tsx:64
    healthCheckImageUrl,     \* App.tsx:65  0 is null, else the image of that call
    selectedPlant,           \* App.tsx:66  the plant record handed to the health check
    detailedPlant,           \* App.tsx:67  the plant record shown by PlantDetailModal
    healthReport,            \* App.tsx:68
    isLoading,               \* App.tsx:69
    error,                   \* App.tsx:70  "" is null
    calls,       \* the invocations of the async handlers that are suspended at an await
    now,         \* the wall clock read by new Date()
    nextId,      \* crypto.randomUUID(): ids handed out so far (plants), always fresh
    nextEntryId, \* crypto.randomUUID(): ids handed out so far (growth entries)
    waterLog,    \* history variable: per plant id, every watering timestamp, oldest first
    growthLog,   \* history variable: per plant id, every growth entry, in insertion order
    reportFrom,  \* history variable: the call that wrote healthReport (0: reset or never)
    errorFrom,   \* history variable: the call that wrote error (0: reset or never)
    reportPlant, \* history variable: the plant the call that wrote healthReport was for
    addedBy,     \* history variable: per plant id, the account whose session added it
    lastOp,      \* history variable: the handler that ran last, and its arguments
    probe        \* the inputs and outputs of one evaluation of a derived view

\* The state of App that only the async handlers and the modals write
asyncUI ==
    <<isAddModalOpen, isHealthCheckModalOpen, healthCheckImageUrl, selectedPlant,
      healthReport, isLoading, error, calls, reportFrom, errorFrom, reportPlant>>

\* The session, the user table, the sort order and the state of the storage
session == <<currentUser, usersDB, sortOrder, quotaExceeded, queued>>

vars ==
    <<plants, localStorage, detailedPlant, asyncUI, now, nextId, nextEntryId,
      waterLog, growthLog, lastOp, session, addedBy, probe>>

---------------------------------------------------------------------------
(* Bounds of the model *)

MaxPlants == 1        \* plants alive at once
MaxIds == 2           \* plant ids ever handed out
MaxTicks == 1         \* hours the clock advances in the plant store
MaxWaterings == 11    \* watering events logged
MaxGrowth == 3        \* growth entries ever made
MaxFreq == 3          \* watering frequencies 1..MaxFreq of the probes
FirstProbeDay == 12   \* probes: lastWatered and evaluation from this day on
MaxLastWateredSpan == 3  \* probes: lastWatered on FirstProbeDay .. FirstProbeDay + span
MaxNowSpan == 7       \* probes: evaluation on FirstProbeDay .. FirstProbeDay + span
MaxInFlight == 2      \* health checks under way at once

(* Program constants *)

TicksPerDay == 24     \* 1000 * 60 * 60 * 24 ms, in hours
HistoryLimit == 10    \* newHistory.length > 10 ... splice(10)

---------------------------------------------------------------------------
(* JavaScript Date in a local time zone *)

Abs(x) == IF x < 0 THEN -x ELSE x

\* Math.ceil(a / b) for b > 0
Ceil(a, b) == -((-a) \div b)

\* A zone without daylight saving time has dstFrom = dstTo.
Zone(std, from, to) == [std |-> std, dstFrom |-> from, dstTo |-> to]

\* local time = t + LocalTZA(t): the offset in force at the UTC instant t
LocalTZA(t, z) == z.std + (IF z.dstFrom <= t /\ t < z.dstTo THEN 1 ELSE 0)

LocalTime(t, z) == t + LocalTZA(t, z)

\* The instant of a local time l.  A local time that occurs twice (clocks set
\* back) is the earlier instant; one that is skipped (clocks set forward) is
\* read with the offset before the transition.
UtcOf(l, z) ==
    LET dst == l - z.std - 1
    IN  IF LocalTime(dst, z) = l THEN dst ELSE l - z.std

\* d.getDate(), as a local day number
getDate(t, z) == LocalTime(t, z) \div TicksPerDay

\* d.setDate(d.getDate() + n): n local calendar days later, same local time of day
setDatePlus(t, n, z) == UtcOf(LocalTime(t, z) + n * TicksPerDay, z)

\* d.setHours(0, 0, 0, 0): local midnight of d's local date
setHoursZero(t, z) == UtcOf(getDate(t, z) * TicksPerDay, z)

\* new Date("YYYY-MM-DD"): a date-only string is UTC midnight of that day
ParseDate(day) == day * TicksPerDay

---------------------------------------------------------------------------
(* Due date and status: App.tsx, PlantCard, PlantDetailModal *)

\* App.tsx:43-57
calculateDaysUntilWatering(lastWatered, wateringFrequency, at, z) ==
    LET lastWateredDate == lastWatered
        nextWatering == setDatePlus(lastWateredDate, wateringFrequency, z)
        today == setHoursZero(at, z)
        nextWateringForDiff == setHoursZero(nextWatering, z)
        diffTime == nextWateringForDiff - today
    IN  Ceil(diffTime, TicksPerDay)

\* PlantCard, useMemo at 22-41
PlantCard_daysUntilWatering(lastWatered, wateringFrequency, at, z) ==
    LET lastWateredDate == lastWatered
        nextWatering == setDatePlus(lastWateredDate, wateringFrequency, z)
        today == setHoursZero(at, z)
        nextWateringForDiff == setHoursZero(nextWatering, z)
        diffTime == nextWateringForDiff - today
        diffDays == Ceil(diffTime, TicksPerDay)
    IN  diffDays

\* PlantDetailModal, useMemo at 28-37
PlantDetailModal_daysUntilWatering(lastWatered, wateringFrequency, at, z) ==
    LET lastWateredDate == lastWatered
        nextWatering == setDatePlus(lastWateredDate, wateringFrequency, z)
        today == setHoursZero(at, z)
        nextWateringForDiff == setHoursZero(nextWatering, z)
        diffTime == nextWateringForDiff - today
        diffDays == Ceil(diffTime, TicksPerDay)
    IN  diffDays

\* Faulty variant of wateringStatusText: a plant due today counts as overdue
wateringStatusText_DueTodayOverdue(daysUntilWatering) ==
    LET isOverdue == daysUntilWatering <= 0
    IN  IF isOverdue
          THEN "Overdue by " \o ToString(Abs(daysUntilWatering)) \o " day(s)"
        ELSE IF daysUntilWatering = 1 THEN "Water in 1 day"
        ELSE "Water in " \o ToString(daysUntilWatering) \o " days"

\* PlantCard 76-83
wateringStatusText(daysUntilWatering) ==
    LET isOverdue == daysUntilWatering < 0
    IN  IF isOverdue
          THEN "Overdue by " \o ToString(Abs(daysUntilWatering)) \o " day(s)"
        ELSE IF daysUntilWatering = 0 THEN "Needs watering today!"
        ELSE IF daysUntilWatering = 1 THEN "Water in 1 day"
        ELSE "Water in " \o ToString(daysUntilWatering) \o " days"

\* Faulty variant of wateringStatusColor: a plant due today is not urgent
wateringStatusColor_DueTodayWarning(daysUntilWatering) ==
    IF daysUntilWatering < 0
      THEN "bg-red-100 text-red-800 dark:bg-red-900/50 dark:text-red-300"
    ELSE IF daysUntilWatering <= 2
      THEN "bg-yellow-100 text-yellow-800 dark:bg-yellow-900/50 dark:text-yellow-300"
    ELSE "bg-green-100 text-green-800 dark:bg-green-900/50 dark:text-green-300"

\* PlantCard 85-89
wateringStatusColor(daysUntilWatering) ==
    IF daysUntilWatering <= 0
      THEN "bg-red-100 text-red-800 dark:bg-red-900/50 dark:text-red-300"
    ELSE IF daysUntilWatering <= 2
      THEN "bg-yellow-100 text-yellow-800 dark:bg-yellow-900/50 dark:text-yellow-300"
    ELSE "bg-green-100 text-green-800 dark:bg-green-900/50 dark:text-green-300"

\* PlantDetailModal 39-43: later assignments override earlier ones
PlantDetailModal_wateringStatusText(diffDays) ==
    LET isOverdue == diffDays < 0
        s0 == "In " \o ToString(diffDays) \o " days"
        s1 == IF isOverdue THEN "Overdue by " \o ToString(Abs(diffDays)) \o " days" ELSE s0
        s2 == IF diffDays = 0 THEN "Today" ELSE s1
        s3 == IF diffDays = 1 THEN "In 1 day" ELSE s2
    IN  s3

\* PlantDetailModal 45-47
PlantDetailModal_wateringStatusColor(diffDays) ==
    LET c0 == "text-green-600 dark:text-green-400"
    IN  IF diffDays <= 0 THEN "text-red-600 dark:text-red-400"
        ELSE IF diffDays <= 2 THEN "text-yellow-600 dark:text-yellow-400"
        ELSE c0

---------------------------------------------------------------------------
(* The plant store: App.tsx *)

Ids == 1..MaxIds

\* The clock of the plant store starts at noon (UTC) of day 1.
NowStart == TicksPerDay + 12

\* Values of the <input type="date"> of AddPlantModal (required, no min or
\* max): the day before the clock's day, that day, and the day after
SeedDays == {0, 1, 2}

\* wateringFrequency returned by getPlantCareInfo
CareFreqs == {MaxFreq}

\* String.prototype.trim
RECURSIVE TrimStart(_)
TrimStart(s) == IF s # <<>> /\ Head(s) = " " THEN TrimStart(Tail(s)) ELSE s

RECURSIVE TrimEnd(_)
TrimEnd(s) ==
    IF s # <<>> /\ s[Len(s)] = " " THEN TrimEnd(SubSeq(s, 1, Len(s) - 1)) ELSE s

trim(s) == TrimEnd(TrimStart(s))

\* Values of the <input type="date" required> of the growth form: 2024-01-01
\* and 2024-02-01
GrowthDays == {0, 31}

\* Texts typed into the <input type="number"> of the growth form, as sequences
\* of characters, with at most one digit after the point
TypedHeights ==
    { <<>>, <<"a", "b", "c">>, <<"1", "2", "a", "b", "c">>, <<"0">>, <<"0", ".", "0">>,
      <<"-", "5">>, <<"0", ".", "5">>, <<"1", "0">>, <<"1", "5">> }

Digits == {"0", "1", "2", "3", "4", "5", "6", "7", "8", "9"}

DigitValue(c) == CHOOSE d \in 0..9 : ToString(d) = c

\* The leading digits of s
RECURSIVE DigitPrefix(_)
DigitPrefix(s) ==
    IF s # <<>> /\ Head(s) \in Digits THEN <<Head(s)>> \o DigitPrefix(Tail(s)) ELSE <<>>

\* The number written by a sequence of digits
RECURSIVE DigitsValue(_)
DigitsValue(ds) ==
    IF ds = <<>> THEN 0 ELSE 10 * DigitsValue(SubSeq(ds, 1, Len(ds) - 1)) + DigitValue(ds[Len(ds)])

\* Numbers are fixed-point with one decimal digit, held as an integer number
\* of tenths: 15 (cm) is 150.  NaN is a value of its own.
NaN == [nan |-> TRUE, tenths |-> 0]
Number(tenths) == [nan |-> FALSE, tenths |-> tenths]

\* A valid floating-point number (HTML): an optional "-", digits, and
\* optionally a point followed by digits
IsValidFloatingPointNumber(s) ==
    LET unsigned == IF s # <<>> /\ Head(s) = "-" THEN Tail(s) ELSE s
        int == DigitPrefix(unsigned)
        rest == SubSeq(unsigned, Len(int) + 1, Len(unsigned))
    IN  /\ int # <<>>
        /\ \/ rest = <<>>
           \/ /\ Len(rest) >= 2
              /\ Head(rest) = "."
              /\ DigitPrefix(Tail(rest)) = Tail(rest)

\* e.target.value of an <input type="number">: the value sanitization
\* algorithm makes the empty string of whatever is not a valid number
NumberInputValue(typed) == IF IsValidFloatingPointNumber(typed) THEN typed ELSE <<>>

\* parseFloat: leading white space, an optional sign, the longest prefix that
\* is a decimal literal; NaN if there is no digit
parseFloat(string) ==
    LET s == TrimStart(string)
        negative == s # <<>> /\ Head(s) = "-"
        unsigned == IF s # <<>> /\ Head(s) \in {"-", "+"} THEN Tail(s) ELSE s
        int == DigitPrefix(unsigned)
        rest == SubSeq(unsigned, Len(int) + 1, Len(unsigned))
        frac == IF rest # <<>> /\ Head(rest) = "." THEN DigitPrefix(Tail(rest)) ELSE <<>>
        magnitude == 10 * DigitsValue(int) + (IF frac = <<>> THEN 0 ELSE DigitValue(frac[1]))
    IN  IF int = <<>> /\ frac = <<>> THEN NaN
        ELSE Number(IF negative THEN -magnitude ELSE magnitude)

\* Texts typed into the notes editor of a card
NoteTexts == {"", "repotted"}

\* Texts typed into the nickname editor, as sequences of characters
NicknameInputs == {<<>>, <<" ">>, <<"F">>, <<" ", "F", " ">>}

\* Array.prototype.sort with a comparator that subtracts numeric keys: stable
\* (ECMAScript 2019), ascending by key.  keys[i] is the key of seq[i].
RECURSIVE InsertStable(_, _, _)
InsertStable(sorted, i, keys) ==
    IF sorted = <<>> THEN <<i>>
    ELSE IF keys[Head(sorted)] <= keys[i]
      THEN <<Head(sorted)>> \o InsertStable(Tail(sorted), i, keys)
    ELSE <<i>> \o sorted

RECURSIVE SortIndices(_, _)
SortIndices(n, keys) ==
    IF n = 0 THEN <<>> ELSE InsertStable(SortIndices(n - 1, keys), n, keys)

StableSort(seq, keys) ==
    LET order == SortIndices(Len(seq), keys)
    IN  [k \in 1..Len(seq) |-> seq[order[k]]]

\* Faulty variant of sortByDateAscending: entries of one date are put before the
\* earlier entries of that date (a sort that is not stable)
sortByDateAscending_Unstable(entries) ==
    StableSort(entries,
               [k \in 1..Len(entries) |-> ParseDate(entries[k].date) * (Len(entries) + 1) - k])

\* App.tsx:216  updatedHistory.sort((a,b) => new Date(a.date).getTime() - new Date(b.date).getTime())
sortByDateAscending(entries) ==
    StableSort(entries, [k \in 1..Len(entries) |-> ParseDate(entries[k].date)])

\* Faulty variant of sortedPlants: plants with the same number of days are
\* shown in the reverse of their order in the list
sortedPlants_TiesReversed(list, order, at, z) ==
    IF order = "watering"
      THEN StableSort(list,
             [k \in 1..Len(list) |->
                calculateDaysUntilWatering(list[k].lastWatered, list[k].wateringFrequency,
                                           at, z) * (Len(list) + 1) - k])
      ELSE list

\* App.tsx:242-249  [...plants].sort((a, b) => calculateDaysUntilWatering(a) -
\* calculateDaysUntilWatering(b)) for 'watering', plants otherwise; computed
\* at the instant `at` in the zone z
sortedPlants(list, order, at, z) ==
    IF order = "watering"
      THEN StableSort(list,
             [k \in 1..Len(list) |->
                calculateDaysUntilWatering(list[k].lastWatered, list[k].wateringFrequency,
                                           at, z)])
      ELSE list

\* prevPlants.map(f)
MapPlants(f(_), list) == [k \in 1..Len(list) |-> f(list[k])]

\* prevPlants.filter(keep)
RECURSIVE FilterPlants(_, _)
FilterPlants(keep(_), list) ==
    IF list = <<>> THEN <<>>
    ELSE IF keep(Head(list)) THEN <<Head(list)>> \o FilterPlants(keep, Tail(list))
    ELSE FilterPlants(keep, Tail(list))

PlantIds == {plants[k].id : k \in 1..Len(plants)}

\* Faulty variant of newPlant: the history is not seeded
newPlant_NoSeed(id, wateringFrequency, lastWateredDate) ==
    [ id |-> id,
      wateringFrequency |-> wateringFrequency,
      lastWatered |-> ParseDate(lastWateredDate),
      wateringHistory |-> <<>>,
      notes |-> "",
      nickname |-> <<>>,
      growthHistory |-> <<>> ]

\* App.tsx:140-148.  A plant that was never given a nickname or a growth
\* entry has these fields undefined; undefined is modelled by the empty
\* sequence, which is what (p.growthHistory || []) and (nickname || undefined)
\* make of it.
newPlant(id, wateringFrequency, lastWateredDate) ==
    [ id |-> id,
      wateringFrequency |-> wateringFrequency,
      lastWatered |-> ParseDate(lastWateredDate),
      wateringHistory |-> <<ParseDate(lastWateredDate)>>,
      notes |-> "",
      nickname |-> <<>>,
      growthHistory |-> <<>> ]

\* Faulty variant of wateredPlant: the history is never cut
wateredPlant_NoLimit(p, newWateredDate) ==
    [p EXCEPT !.lastWatered = newWateredDate,
              !.wateringHistory = <<newWateredDate>> \o p.wateringHistory]

\* Faulty variant of wateredPlant: the cut drops the newest entries instead of the oldest
wateredPlant_CutFront(p, newWateredDate) ==
    LET prepended == <<newWateredDate>> \o p.wateringHistory
        newHistory == IF Len(prepended) > HistoryLimit
                        THEN SubSeq(prepended, Len(prepended) - HistoryLimit + 1, Len(prepended))
                        ELSE prepended
    IN  [p EXCEPT !.lastWatered = newWateredDate, !.wateringHistory = newHistory]

\* Faulty variant of wateredPlant: the new date is appended (oldest first) and the
\* cut keeps the last 10
wateredPlant_Appended(p, newWateredDate) ==
    LET appended == Append(p.wateringHistory, newWateredDate)
        newHistory == IF Len(appended) > HistoryLimit
                        THEN SubSeq(appended, Len(appended) - HistoryLimit + 1, Len(appended))
                        ELSE appended
    IN  [p EXCEPT !.lastWatered = newWateredDate, !.wateringHistory = newHistory]

\* Faulty variant of wateredPlant: the spread of the plant is left out, so
\* that the notes are reset
wateredPlant_ClearsNotes(p, newWateredDate) ==
    [p EXCEPT !.lastWatered = newWateredDate,
              !.wateringHistory = SubSeq(<<newWateredDate>> \o p.wateringHistory, 1,
                                         IF Len(p.wateringHistory) < HistoryLimit
                                           THEN Len(p.wateringHistory) + 1
                                           ELSE HistoryLimit),
              !.notes = ""]

\* Faulty variant of historyOrLastWatered: a plant without a wateringHistory
\* is taken to have an empty one
historyOrLastWatered_Empty(p) ==
    IF "wateringHistory" \in DOMAIN p THEN p.wateringHistory ELSE <<>>

\* App.tsx:168 and PlantCard 44: (p.wateringHistory || [p.lastWatered]).  A
\* plant stored by an earlier version has no wateringHistory field.
historyOrLastWatered(p) ==
    IF "wateringHistory" \in DOMAIN p THEN p.wateringHistory ELSE <<p.lastWatered>>

\* App.tsx:166-177: the new record of the plant that is watered
wateredPlant(p, newWateredDate) ==
    LET prepended == <<newWateredDate>> \o historyOrLastWatered(p)
        newHistory == IF Len(prepended) > HistoryLimit
                        THEN SubSeq(prepended, 1, HistoryLimit)
                        ELSE prepended
    IN  [f \in DOMAIN p \cup {"wateringHistory"} |->
            IF f = "lastWatered" THEN newWateredDate
            ELSE IF f = "wateringHistory" THEN newHistory
            ELSE p[f]]

\* PlantCard 43-45: sortedHistory, a sorted copy
PlantCard_sortedHistory(plant) ==
    LET history == historyOrLastWatered(plant)
    IN  StableSort(history, [k \in 1..Len(history) |-> 0 - history[k]])

\* App.tsx:215-217 and 225-227: the new record of the plant that gets a growth entry
plantWithGrowthEntry(p, newEntry) ==
    LET updatedHistory == sortByDateAscending(Append(p.growthHistory, newEntry))
    IN  [p EXCEPT !.growthHistory = updatedHistory]

\* null, for selectedPlant and detailedPlant
NoPlant == [id |-> 0]

\* Faulty variant of JSON_stringify: only the plant that was added last is
\* written
JSON_stringify_LastOnly(list) ==
    LET document(p) ==
          LET present == {f \in DOMAIN p :
                             ~(f \in {"nickname", "growthHistory"} /\ p[f] = <<>>)}
          IN  [f \in present |-> p[f]]
    IN  IF list = <<>> THEN <<>> ELSE <<document(list[Len(list)])>>

\* JSON.stringify(plants): the document has the plants in their order, each
\* with the fields that are not undefined
JSON_stringify(list) ==
    LET document(p) ==
          LET present == {f \in DOMAIN p :
                             ~(f \in {"nickname", "growthHistory"} /\ p[f] = <<>>)}
          IN  [f \in present |-> p[f]]
    IN  [k \in 1..Len(list) |-> document(list[k])]

\* App.tsx:80: JSON.parse of a stored document; a field the document lacks is
\* undefined
JSON_parse(document) ==
    LET plant(d) ==
          [f \in DOMAIN d \cup {"nickname", "growthHistory"} |->
              IF f \in DOMAIN d THEN d[f] ELSE <<>>]
    IN  [k \in 1..Len(document) |-> plant(document[k])]

\* AiHealthReport | null.  A field the provider left out is 0 or "".
NoReport ==
    [null |-> TRUE, isMatch |-> FALSE, mismatchMessage |-> "", healthScore |-> 0,
     overallAssessment |-> ""]

\* Answers of the vision provider: a match with a report, a mismatch, and a
\* mismatch that carries report fields all the same
ProviderReports ==
    { [null |-> FALSE, isMatch |-> TRUE, mismatchMessage |-> "", healthScore |-> 80,
       overallAssessment |-> "Healthy"],
      [null |-> FALSE, isMatch |-> FALSE,
       mismatchMessage |-> "This photo doesn't seem to be a fern.", healthScore |-> 0,
       overallAssessment |-> ""],
      [null |-> FALSE, isMatch |-> FALSE,
       mismatchMessage |-> "This photo doesn't seem to be a fern.", healthScore |-> 35,
       overallAssessment |-> "Stressed"] }

\* App.tsx:121: the message of the Error thrown by getAiHealthCheck, or the
\* fixed message for a rejection that is not an Error (fileToBase64)
HealthCheckErrors ==
    { "Failed to get AI Health Check. Please try again.", "API key not valid." }

\* Faulty variant of AddPlantError: the failure leaves no message
AddPlantError_None == ""

\* App.tsx:155
AddPlantError == "Failed to add plant. Could not get care info. Please try again."

\* AuthContext 40: no user is logged in
NoUser == [email |-> ""]

\* A user of the usersDB item; name, password and avatar are not modelled
User(email) == [email |-> email]

\* The email addresses typed into the sign-up, login and profile forms
Emails == {"a@x", "b@x"}

\* The account of a user: its position in the usersDB item, 0 for no account
AccountOf(user) ==
    IF \E k \in 1..Len(usersDB) : usersDB[k].email = user.email
      THEN CHOOSE k \in 1..Len(usersDB) : usersDB[k].email = user.email
      ELSE 0

\* App.tsx:78: localStorage.getItem returns null for a key that was never set
NoItem == [present |-> FALSE, value |-> <<>>]

Item(value) == [present |-> TRUE, value |-> value]

\* The item stored under the key of the current user
persisted == localStorage[currentUser.email].value

\* An invocation of an async handler, suspended at the await named by `at`;
\* account records the account of the session that invoked it
Call(id, handler, at, arg) ==
    [id |-> id, handler |-> handler, at |-> at, arg |-> arg,
     account |-> AccountOf(currentUser)]

Op(op, plantId, arg) == [op |-> op, plantId |-> plantId, arg |-> arg]

---------------------------------------------------------------------------
(* Operations: the handlers of App.tsx and of the components that call them *)

NoProbe == [phase |-> "none"]

\* A new user: nothing stored, every modal closed
\* No setPlants of the load effect is waiting to be rendered
NoUpdate == [pending |-> FALSE, plants |-> <<>>]

\* The storage after the sign-up of the first user, whose list is empty
InitialStorage ==
    [e \in Emails |-> IF e = "a@x" THEN Item(JSON_stringify(<<>>)) ELSE NoItem]

\* App.tsx:62-72 after the mount: the state of App for a session and a storage
InitApp(user, storage) ==
    /\ plants = IF user # NoUser /\ storage[user.email].present
                  THEN JSON_parse(storage[user.email].value)
                  ELSE <<>>
    /\ currentUser = user
    /\ usersDB = <<User("a@x")>>
    /\ localStorage = storage
    /\ sortOrder = "default"
    /\ quotaExceeded = FALSE
    /\ queued = NoUpdate
    /\ reportPlant = 0
    /\ addedBy = [i \in Ids |-> 0]
    /\ isAddModalOpen = FALSE
    /\ isHealthCheckModalOpen = FALSE
    /\ healthCheckImageUrl = 0
    /\ selectedPlant = NoPlant
    /\ detailedPlant = NoPlant
    /\ healthReport = NoReport
    /\ isLoading = FALSE
    /\ error = ""
    /\ calls = {}
    /\ now = NowStart
    /\ nextId = 1
    /\ nextEntryId = 1
    /\ waterLog = [i \in Ids |-> <<>>]
    /\ growthLog = [i \in Ids |-> <<>>]
    /\ reportFrom = 0
    /\ errorFrom = 0
    /\ lastOp = Op("none", 0, <<>>)

\* The first user has signed up and is logged in
InitStore == InitApp(User("a@x"), InitialStorage)

Init == InitStore /\ probe = NoProbe

\* App.tsx:94-103: the effect that saves the plants whenever they change
SavePlants ==
    localStorage' =
        IF currentUser = NoUser \/ quotaExceeded
          THEN localStorage
          ELSE [localStorage EXCEPT ![currentUser.email] = Item(JSON_stringify(plants'))]

\* Time passes between two events.
Tick ==
    /\ now' = now + 1
    /\ lastOp' = Op("Tick", 0, <<>>)
    /\ UNCHANGED <<plants, localStorage, detailedPlant, asyncUI, nextId, nextEntryId,
                   waterLog, growthLog, probe, session, addedBy>>

\* App.tsx:262 and 285: the Add Plant buttons
openAddModal ==
    /\ isAddModalOpen' = TRUE
    /\ lastOp' = Op("openAddModal", 0, <<>>)
    /\ UNCHANGED <<plants, localStorage, detailedPlant, isHealthCheckModalOpen,
                   healthCheckImageUrl, selectedPlant, healthReport, isLoading, error,
                   calls, reportFrom, reportPlant, errorFrom, now, nextId, nextEntryId,
                   waterLog, growthLog, probe, session, addedBy>>

\* App.tsx:340: onClose of AddPlantModal
closeAddModal ==
    /\ isAddModalOpen' = FALSE
    /\ lastOp' = Op("closeAddModal", 0, <<>>)
    /\ UNCHANGED <<plants, localStorage, detailedPlant, isHealthCheckModalOpen,
                   healthCheckImageUrl, selectedPlant, healthReport, isLoading, error,
                   calls, reportFrom, reportPlant, errorFrom, now, nextId, nextEntryId,
                   waterLog, growthLog, probe, session, addedBy>>

\* The id of a new call: the least number that no suspended call has
FreshCall == CHOOSE i \in 1..(Cardinality(calls) + 1) : \A c \in calls : c.id # i

\* App.tsx:130-138: handleAddPlant up to its await
handleAddPlant(lastWateredDate) ==
    /\ isLoading' = TRUE
    /\ error' = ""
    /\ errorFrom' = 0
    /\ calls' = calls \cup {Call(FreshCall, "handleAddPlant", "getPlantCareInfo", lastWateredDate)}
    /\ lastOp' = Op("handleAddPlant", 0, FreshCall)
    /\ UNCHANGED <<plants, localStorage, detailedPlant, isAddModalOpen, isHealthCheckModalOpen,
                   healthCheckImageUrl, selectedPlant, healthReport, reportFrom, reportPlant, now,
                   nextId, nextEntryId, waterLog, growthLog, probe, session, addedBy>>

\* App.tsx:140-152 and 158: getPlantCareInfo and fileToDataUrl have answered
handleAddPlant_then(c, wateringFrequency) ==
    /\ c \in calls /\ c.handler = "handleAddPlant"
    /\ plants' = Append(plants, newPlant(nextId, wateringFrequency, c.arg))
    /\ SavePlants
    /\ nextId' = nextId + 1
    /\ addedBy' = [addedBy EXCEPT ![nextId] = c.account]
    /\ isAddModalOpen' = FALSE
    /\ isLoading' = FALSE
    /\ calls' = calls \ {c}
    /\ lastOp' = Op("handleAddPlant_then", nextId, c.id)
    /\ UNCHANGED <<detailedPlant, isHealthCheckModalOpen, healthCheckImageUrl,
                   selectedPlant, healthReport, error, reportFrom, reportPlant, errorFrom,
                   now, nextEntryId, waterLog, growthLog, probe, session>>

\* App.tsx:154-158: getPlantCareInfo or fileToDataUrl has failed
handleAddPlant_catch(c) ==
    /\ c \in calls /\ c.handler = "handleAddPlant"
    /\ error' = AddPlantError
    /\ errorFrom' = c.id
    /\ isLoading' = FALSE
    /\ calls' = calls \ {c}
    /\ lastOp' = Op("handleAddPlant_catch", 0, c.id)
    /\ UNCHANGED <<plants, localStorage, detailedPlant, isAddModalOpen, isHealthCheckModalOpen,
                   healthCheckImageUrl, selectedPlant, healthReport, reportFrom, reportPlant,
                   now, nextId, nextEntryId, waterLog, growthLog, probe, session, addedBy>>

\* App.tsx:162-183
handleWaterPlant(plantId) ==
    /\ LET newWateredDate == now
           f(p) == IF p.id = plantId THEN wateredPlant(p, newWateredDate) ELSE p
       IN  plants' = MapPlants(f, plants)
    /\ SavePlants
    /\ waterLog' = [waterLog EXCEPT ![plantId] = Append(@, now)]
    /\ lastOp' = Op("handleWaterPlant", plantId, <<>>)
    /\ UNCHANGED <<detailedPlant, asyncUI, now, nextId, nextEntryId, growthLog, probe, session, addedBy>>

\* App.tsx:185-189
handleUpdatePlantNotes(plantId, notes) ==
    /\ LET f(p) == IF p.id = plantId THEN [p EXCEPT !.notes = notes] ELSE p
       IN  plants' = MapPlants(f, plants)
    /\ SavePlants

\* PlantCard 47-50
handleSaveNotes(plantId, currentNotes) ==
    /\ handleUpdatePlantNotes(plantId, currentNotes)
    /\ lastOp' = Op("handleSaveNotes", plantId, <<>>)
    /\ UNCHANGED <<detailedPlant, asyncUI, now, nextId, nextEntryId, waterLog,
                   growthLog, probe, session, addedBy>>

\* Faulty variant of isKept: the plants added before the deleted one go too
isKept_NewerOnly(p, plantId) == p.id > plantId

\* App.tsx:203: the filter callback, p => p.id !== plantId
isKept(p, plantId) == p.id # plantId

\* App.tsx:202-205
handleDeletePlant(plantId) ==
    /\ LET keep(p) == isKept(p, plantId)
       IN  plants' = FilterPlants(keep, plants)
    /\ SavePlants
    /\ waterLog' = [waterLog EXCEPT ![plantId] = <<>>]
    /\ growthLog' = [growthLog EXCEPT ![plantId] = <<>>]
    /\ lastOp' = Op("handleDeletePlant", plantId, <<>>)
    /\ UNCHANGED <<detailedPlant, asyncUI, now, nextId, nextEntryId, probe, session, addedBy>>

\* The record of the plant with this id in a plants list
PlantIn(list, id) == list[CHOOSE k \in 1..Len(list) : list[k].id = id]

\* App.tsx:302: onViewDetails of the card of a plant
onViewDetails(plantId) ==
    /\ detailedPlant' = PlantIn(plants, plantId)
    /\ lastOp' = Op("onViewDetails", plantId, <<>>)
    /\ UNCHANGED <<plants, localStorage, asyncUI, now, nextId, nextEntryId, waterLog,
                   growthLog, probe, session, addedBy>>

\* App.tsx:362: onClose of PlantDetailModal
closeDetail ==
    /\ detailedPlant' = NoPlant
    /\ lastOp' = Op("closeDetail", 0, <<>>)
    /\ UNCHANGED <<plants, localStorage, asyncUI, now, nextId, nextEntryId, waterLog,
                   growthLog, probe, session, addedBy>>

\* App.tsx:191-199
handleUpdatePlantNickname(plantId, nickname) ==
    LET trimmedNickname == trim(nickname)
        f(p) == IF p.id = plantId THEN [p EXCEPT !.nickname = trimmedNickname] ELSE p
    IN  /\ plants' = MapPlants(f, plants)
        /\ SavePlants
        /\ detailedPlant' = IF detailedPlant.id # 0 /\ detailedPlant.id = plantId
                              THEN [detailedPlant EXCEPT !.nickname = trimmedNickname]
                              ELSE detailedPlant

\* PlantDetailModal 70-73
handleSaveNickname(currentNickname) ==
    /\ handleUpdatePlantNickname(detailedPlant.id, trim(currentNickname))
    /\ lastOp' = Op("handleSaveNickname", detailedPlant.id, <<>>)
    /\ UNCHANGED <<asyncUI, now, nextId, nextEntryId, waterLog, growthLog, probe, session, addedBy>>

\* Faulty variant of detailWithGrowthEntry: the copy is left as it is
detailWithGrowthEntry_Stale(prev, plantId, newEntry) == prev

\* App.tsx:223-230: the callback of setDetailedPlant
detailWithGrowthEntry(prev, plantId, newEntry) ==
    IF prev.id # 0 /\ prev.id = plantId THEN plantWithGrowthEntry(prev, newEntry) ELSE prev

\* App.tsx:207-232.  The notes of an entry are not modelled.
handleAddGrowthEntry(plantId, date, height) ==
    LET newEntry == [id |-> nextEntryId, date |-> date, height |-> height]
        f(p) == IF p.id = plantId THEN plantWithGrowthEntry(p, newEntry) ELSE p
    IN  /\ plants' = MapPlants(f, plants)
        /\ SavePlants
        /\ detailedPlant' = detailWithGrowthEntry(detailedPlant, plantId, newEntry)
        /\ growthLog' = [growthLog EXCEPT ![plantId] = Append(@, newEntry)]
        /\ nextEntryId' = nextEntryId + 1

\* Faulty variant of returnsEarly: only a height that is not a number is refused
returnsEarly_NaNOnly(heightValue) == heightValue.nan

\* PlantDetailModal 56: !heightValue || heightValue <= 0
returnsEarly(heightValue) ==
    (heightValue.nan \/ heightValue.tenths = 0) \/ heightValue.tenths <= 0

\* PlantDetailModal 53-68.  typed is what the user typed into the height
\* field; the browser's constraint validation (required, min) would stop
\* some values before the handler runs, and the handler is modelled for
\* every value the field can hold.
handleAddGrowthSubmit(typed, date) ==
    /\ LET height == NumberInputValue(typed)
           heightValue == parseFloat(height)
       IN  IF returnsEarly(heightValue)
             THEN UNCHANGED <<plants, localStorage, detailedPlant, growthLog, nextEntryId>>
             ELSE handleAddGrowthEntry(detailedPlant.id, date, heightValue.tenths)
    /\ lastOp' = Op("handleAddGrowthSubmit", detailedPlant.id, typed)
    /\ UNCHANGED <<asyncUI, now, nextId, waterLog, probe, session, addedBy>>

\* App.tsx:105-111: handleHealthCheck up to its first await
handleHealthCheck(plantId) ==
    /\ selectedPlant' = PlantIn(plants, plantId)
    /\ healthReport' = NoReport
    /\ reportFrom' = 0
    /\ reportPlant' = 0
    /\ error' = ""
    /\ errorFrom' = 0
    /\ calls' = calls \cup {Call(FreshCall, "handleHealthCheck", "fileToDataUrl", plantId)}
    /\ lastOp' = Op("handleHealthCheck", plantId, FreshCall)
    /\ UNCHANGED <<plants, localStorage, detailedPlant, isAddModalOpen, isHealthCheckModalOpen,
                   healthCheckImageUrl, isLoading, now, nextId, nextEntryId, waterLog,
                   growthLog, probe, session, addedBy>>

\* App.tsx:111-118: the preview image is read, the modal opens and the request
\* to the vision provider is made
handleHealthCheck_preview(c) ==
    /\ c \in calls /\ c.handler = "handleHealthCheck" /\ c.at = "fileToDataUrl"
    /\ healthCheckImageUrl' = c.id
    /\ isHealthCheckModalOpen' = TRUE
    /\ isLoading' = TRUE
    /\ calls' = (calls \ {c}) \cup {[c EXCEPT !.at = "getAiHealthCheck"]}
    /\ lastOp' = Op("handleHealthCheck_preview", c.arg, c.id)
    /\ UNCHANGED <<plants, localStorage, detailedPlant, isAddModalOpen, selectedPlant,
                   healthReport, error, reportFrom, reportPlant, errorFrom, now, nextId, nextEntryId,
                   waterLog, growthLog, probe, session, addedBy>>

\* App.tsx:111: fileToDataUrl rejects outside the try block; the handler ends
handleHealthCheck_unreadable(c) ==
    /\ c \in calls /\ c.handler = "handleHealthCheck" /\ c.at = "fileToDataUrl"
    /\ calls' = calls \ {c}
    /\ lastOp' = Op("handleHealthCheck_unreadable", c.arg, c.id)
    /\ UNCHANGED <<plants, localStorage, detailedPlant, isAddModalOpen, isHealthCheckModalOpen,
                   healthCheckImageUrl, selectedPlant, healthReport, isLoading, error,
                   reportFrom, reportPlant, errorFrom, now, nextId, nextEntryId, waterLog, growthLog,
                   probe, session, addedBy>>

\* App.tsx:118-119 and 126: the vision provider has answered
handleHealthCheck_then(c, reportData) ==
    /\ c \in calls /\ c.handler = "handleHealthCheck" /\ c.at = "getAiHealthCheck"
    /\ healthReport' = reportData
    /\ reportFrom' = c.id
    /\ reportPlant' = c.arg
    /\ isLoading' = FALSE
    /\ calls' = calls \ {c}
    /\ lastOp' = Op("handleHealthCheck_then", c.arg, c.id)
    /\ UNCHANGED <<plants, localStorage, detailedPlant, isAddModalOpen, isHealthCheckModalOpen,
                   healthCheckImageUrl, selectedPlant, error, errorFrom, now, nextId,
                   nextEntryId, waterLog, growthLog, probe, session, addedBy>>

\* App.tsx:120-126: fileToBase64 or getAiHealthCheck has failed
handleHealthCheck_catch(c, errorMessage) ==
    /\ c \in calls /\ c.handler = "handleHealthCheck" /\ c.at = "getAiHealthCheck"
    /\ error' = errorMessage
    /\ errorFrom' = c.id
    /\ healthReport' = NoReport
    /\ reportFrom' = 0
    /\ reportPlant' = 0
    /\ isLoading' = FALSE
    /\ calls' = calls \ {c}
    /\ lastOp' = Op("handleHealthCheck_catch", c.arg, c.id)
    /\ UNCHANGED <<plants, localStorage, detailedPlant, isAddModalOpen, isHealthCheckModalOpen,
                   healthCheckImageUrl, selectedPlant, now, nextId, nextEntryId, waterLog,
                   growthLog, probe, session, addedBy>>

\* App.tsx:234-240
closeHealthCheckModal ==
    /\ isHealthCheckModalOpen' = FALSE
    /\ selectedPlant' = NoPlant
    /\ healthReport' = NoReport
    /\ reportFrom' = 0
    /\ reportPlant' = 0
    /\ error' = ""
    /\ errorFrom' = 0
    /\ healthCheckImageUrl' = 0
    /\ lastOp' = Op("closeHealthCheckModal", 0, <<>>)
    /\ UNCHANGED <<plants, localStorage, detailedPlant, isAddModalOpen, isLoading, calls,
                   now, nextId, nextEntryId, waterLog, growthLog, probe, session, addedBy>>

\* AIHealthCheckModal 114-133: the text put in front of the notes.  The date
\* of the heading and the lists of signs, issues and recommendations are not
\* modelled; trim() drops the separator in front of empty notes.
newNotes(reportData, plant) ==
    LET reportText == "AI Health Check:\n- Score: " \o ToString(reportData.healthScore)
                        \o "/100\n- Assessment: " \o reportData.overallAssessment
    IN  IF plant.notes = "" THEN reportText ELSE reportText \o "\n\n\n" \o plant.notes

\* Faulty variant of copyReturnsEarly: only a missing report is refused
copyReturnsEarly_NullOnly(reportData) == reportData.null

\* AIHealthCheckModal 108: !reportData || !reportData.isMatch
copyReturnsEarly(reportData) == reportData.null \/ ~reportData.isMatch

\* AIHealthCheckModal 107-138, of the modal rendered for selectedPlant.  The
\* modal shows the Copy to Notes button only for a matching report; the
\* handler is modelled for every state of the modal.
handleCopyToNotes ==
    /\ LET plant == selectedPlant
           reportData == healthReport
       IN  IF copyReturnsEarly(reportData)
             THEN UNCHANGED <<plants, localStorage>>
             ELSE handleUpdatePlantNotes(plant.id, newNotes(reportData, plant))
    /\ lastOp' = Op("handleCopyToNotes", selectedPlant.id, <<>>)
    /\ UNCHANGED <<detailedPlant, asyncUI, now, nextId, nextEntryId, waterLog,
                   growthLog, probe, session, addedBy>>

\* PlantCard 43-45: the card of a plant computes sortedHistory
RenderSortedHistory(plantId) ==
    /\ probe' = [phase |-> "sortedHistory", plantId |-> plantId,
                 view |-> PlantCard_sortedHistory(PlantIn(plants, plantId))]
    /\ lastOp' = Op("PlantCard_sortedHistory", plantId, <<>>)
    /\ UNCHANGED <<plants, localStorage, detailedPlant, asyncUI, now, nextId, nextEntryId,
                   waterLog, growthLog, session, addedBy>>

\* App.tsx:277-279: the sort button of the dashboard
toggleSortOrder ==
    /\ sortOrder' = (IF sortOrder = "default" THEN "watering" ELSE "default")
    /\ lastOp' = Op("toggleSortOrder", 0, <<>>)
    /\ UNCHANGED <<plants, localStorage, detailedPlant, asyncUI, now, nextId, nextEntryId,
                   waterLog, growthLog, currentUser, usersDB, quotaExceeded, queued,
                   addedBy, probe>>

\* App.tsx:242-249 and 294: a render of the dashboard in the zone z computes
\* sortedPlants from plants and sortOrder and shows one card per element
RenderDashboard(z) ==
    /\ probe' = [phase |-> "dashboard", at |-> now, zone |-> z,
                 view |-> sortedPlants(plants, sortOrder, now, z)]
    /\ lastOp' = Op("sortedPlants", 0, <<>>)
    /\ UNCHANGED <<plants, localStorage, detailedPlant, asyncUI, now, nextId, nextEntryId,
                   waterLog, growthLog, session, addedBy>>

---------------------------------------------------------------------------
(* The session: AuthContext and the load and save effects of App *)

\* App.tsx:74-103: the effects of the render in which currentUser has become
\* `user`.  The load effect reads the item of the user and calls setPlants,
\* which takes effect with the next render; the save effect, declared after
\* it, writes the plants of this render under the key of the user.
userChangedEffects(user) ==
    /\ queued' = [pending |-> TRUE,
                  plants |-> IF user # NoUser /\ localStorage[user.email].present
                               THEN JSON_parse(localStorage[user.email].value)
                               ELSE <<>>]
    /\ localStorage' =
          IF user = NoUser \/ quotaExceeded
            THEN localStorage
            ELSE [localStorage EXCEPT ![user.email] = Item(JSON_stringify(plants))]

\* AuthContext 58-62: setUserSession, and the effects of App that follow
setUserSession(user) ==
    /\ currentUser' = user
    /\ userChangedEffects(user)

\* The render of the plants that the load effect has set, and the save
\* effect of that render
renderLoadedPlants ==
    /\ queued.pending
    /\ plants' = queued.plants
    /\ queued' = NoUpdate
    /\ SavePlants
    /\ lastOp' = Op("renderLoadedPlants", 0, <<>>)
    /\ UNCHANGED <<detailedPlant, asyncUI, now, nextId, nextEntryId, waterLog, growthLog,
                   currentUser, usersDB, sortOrder, quotaExceeded, addedBy, probe>>

\* AuthContext 64-87, for the password of the account.  A login that is
\* rejected changes nothing.
login(email) ==
    /\ \E k \in 1..Len(usersDB) : usersDB[k].email = email
    /\ setUserSession(User(email))
    /\ lastOp' = Op("login", 0, email)
    /\ UNCHANGED <<plants, detailedPlant, asyncUI, now, nextId, nextEntryId, waterLog,
                   growthLog, usersDB, sortOrder, quotaExceeded, addedBy, probe>>

\* AuthContext 89-105.  A sign-up that is rejected, or whose saveUsers
\* throws, changes nothing.
signup(email) ==
    /\ \A k \in 1..Len(usersDB) : usersDB[k].email # email
    /\ ~quotaExceeded
    /\ usersDB' = Append(usersDB, User(email))
    /\ setUserSession(User(email))
    /\ lastOp' = Op("signup", 0, email)
    /\ UNCHANGED <<plants, detailedPlant, asyncUI, now, nextId, nextEntryId, waterLog,
                   growthLog, sortOrder, quotaExceeded, addedBy, probe>>

\* AuthContext 107-110
logout ==
    /\ setUserSession(NoUser)
    /\ lastOp' = Op("logout", 0, <<>>)
    /\ UNCHANGED <<plants, detailedPlant, asyncUI, now, nextId, nextEntryId, waterLog,
                   growthLog, usersDB, sortOrder, quotaExceeded, addedBy, probe>>

\* AuthContext 128-161, called by UpdateProfileForm.handleSubmit with the
\* email of the form; with the email of the user it is a change of the name
\* alone.  An update that is rejected, or whose saveUsers throws, changes
\* nothing.
updateUser(email) ==
    /\ currentUser # NoUser
    /\ \A k \in 1..Len(usersDB) :
          usersDB[k].email = email => usersDB[k].email = currentUser.email
    /\ AccountOf(currentUser) # 0
    /\ ~quotaExceeded
    /\ usersDB' = [usersDB EXCEPT ![AccountOf(currentUser)] = User(email)]
    /\ setUserSession(User(email))
    /\ lastOp' = Op("updateUser", 0, email)
    /\ UNCHANGED <<plants, detailedPlant, asyncUI, now, nextId, nextEntryId, waterLog,
                   growthLog, sortOrder, quotaExceeded, addedBy, probe>>

\* The storage reaches its quota: setItem throws from now on
storageFills ==
    /\ ~quotaExceeded
    /\ quotaExceeded' = TRUE
    /\ lastOp' = Op("storageFills", 0, <<>>)
    /\ UNCHANGED <<plants, localStorage, detailedPlant, asyncUI, now, nextId, nextEntryId,
                   waterLog, growthLog, currentUser, usersDB, sortOrder, queued, addedBy,
                   probe>>

\* Room is made in the storage: setItem succeeds again
storageFrees ==
    /\ quotaExceeded
    /\ quotaExceeded' = FALSE
    /\ lastOp' = Op("storageFrees", 0, <<>>)
    /\ UNCHANGED <<plants, localStorage, detailedPlant, asyncUI, now, nextId, nextEntryId,
                   waterLog, growthLog, currentUser, usersDB, sortOrder, queued, addedBy,
                   probe>>

---------------------------------------------------------------------------
(* What PlantDetailModal derives from its plant *)

\* Faulty variant of sortByDateDescending: the oldest entry comes first
sortByDateDescending_Ascending(entries) ==
    StableSort(entries, [k \in 1..Len(entries) |-> ParseDate(entries[k].date)])

\* PlantDetailModal 21-24
\* [...(plant.growthHistory || [])].sort((a,b) => new Date(b.date).getTime() - new Date(a.date).getTime())
sortByDateDescending(entries) ==
    StableSort(entries, [k \in 1..Len(entries) |-> -ParseDate(entries[k].date)])

\* `${n}` for a number held in tenths: 150 is "15", 5 is "0.5"
NumberToString(tenths) ==
    IF tenths % 10 = 0 THEN ToString(tenths \div 10)
    ELSE ToString(tenths \div 10) \o "." \o ToString(tenths % 10)

\* PlantDetailModal 26 and 151: currentHeight ? `${currentHeight} cm` : 'N/A',
\* where currentHeight is sortedGrowthHistory[0]?.height
currentHeightText(plant) ==
    LET sortedGrowthHistory == sortByDateDescending(plant.growthHistory)
        undefined == sortedGrowthHistory = <<>>
    IN  IF undefined \/ sortedGrowthHistory[1].height = 0 THEN "N/A"
        ELSE NumberToString(sortedGrowthHistory[1].height) \o " cm"

---------------------------------------------------------------------------
(* What AIHealthCheckModal shows *)

\* AIHealthCheckModal 177-296: renderContent, as the kind of content and its
\* text
renderContent(loading, err, reportData) ==
    IF loading THEN <<"loading", "Our AI is on the job!">>
    ELSE IF err # "" THEN <<"error", err>>
    ELSE IF ~reportData.null /\ ~reportData.isMatch
      THEN <<"mismatch", reportData.mismatchMessage>>
    ELSE IF ~reportData.null /\ reportData.isMatch /\ reportData.overallAssessment # ""
      THEN <<"report", reportData.overallAssessment>>
    ELSE <<"none", "Could not retrieve health report.">>

---------------------------------------------------------------------------
(* Next-state relations.  The bounds of the model and the situations in    *)
(* which the user can reach a handler are guards of the next-state         *)
(* relations, not of the handlers.                                         *)

CanAdd == Len(plants) < MaxPlants /\ nextId <= MaxIds
CanWater(id) == Len(waterLog[id]) < MaxWaterings
CanGrow == nextEntryId <= MaxGrowth
CanTick == now < NowStart + MaxTicks

\* The modals cover the page (fixed inset-0): the cards and the buttons of
\* the dashboard can be reached only while no modal is rendered.
HealthCheckModalRendered == isHealthCheckModalOpen /\ selectedPlant.id # 0
DetailModalRendered == detailedPlant.id # 0
NoModal == ~isAddModalOpen /\ ~HealthCheckModalRendered /\ ~DetailModalRendered

\* AddPlantModal 162: the submit button is disabled while isLoading
CanSubmitAddPlant == isAddModalOpen /\ ~isLoading

\* Adding a plant, one request at a time
AddPlantSteps(mayOpen, days) ==
    \/ NoModal /\ mayOpen /\ calls = {} /\ openAddModal
    \/ \E d \in days : CanSubmitAddPlant /\ calls = {} /\ handleAddPlant(d)
    \/ \E c \in calls, f \in CareFreqs : handleAddPlant_then(c, f)
    \/ \E c \in calls : handleAddPlant_catch(c)
    \/ isAddModalOpen /\ closeAddModal

\* Every operation of the plant store on a store that holds one plant at a
\* time, at one instant: up to MaxWaterings waterings and one growth entry
\* per plant.
Next ==
    \/ AddPlantSteps(plants = <<>> /\ nextId <= MaxIds, SeedDays)
    \/ \E id \in PlantIds : NoModal /\ CanWater(id) /\ handleWaterPlant(id)
    \/ \E id \in PlantIds, t \in NoteTexts : NoModal /\ handleSaveNotes(id, t)
    \/ \E id \in PlantIds : NoModal /\ handleDeletePlant(id)
    \/ \E id \in PlantIds : NoModal /\ onViewDetails(id)
    \/ DetailModalRendered /\ closeDetail
    \/ \E n \in NicknameInputs : DetailModalRendered /\ handleSaveNickname(n)
    \/ \E typed \in TypedHeights, d \in GrowthDays :
          /\ DetailModalRendered
          /\ growthLog[detailedPlant.id] = <<>>
          /\ handleAddGrowthSubmit(typed, d)

Spec == Init /\ [][Next]_vars

\* Adding, watering and deleting plants while time passes, on a store of up
\* to MaxPlants plants, with at most MaxWaterings waterings logged at any time.
RECURSIVE LoggedWaterings(_)
LoggedWaterings(n) == IF n = 0 THEN 0 ELSE Len(waterLog[n]) + LoggedWaterings(n - 1)

NextWater ==
    \/ CanTick /\ Tick
    \/ AddPlantSteps(CanAdd, SeedDays)
    \/ \E id \in PlantIds :
          NoModal /\ LoggedWaterings(MaxIds) < MaxWaterings /\ handleWaterPlant(id)
    \/ \E id \in PlantIds : NoModal /\ handleDeletePlant(id)

SpecWater == Init /\ [][NextWater]_vars

\* Adding plants, adding growth entries (at most MaxGrowth in all) from the
\* detail view and deleting plants, on a store of up to MaxPlants plants.
NextGrowth ==
    \/ AddPlantSteps(CanAdd, SeedDays)
    \/ \E id \in PlantIds : NoModal /\ onViewDetails(id)
    \/ DetailModalRendered /\ closeDetail
    \/ \E typed \in TypedHeights, d \in GrowthDays :
          DetailModalRendered /\ CanGrow /\ handleAddGrowthSubmit(typed, d)
    \/ \E id \in PlantIds : NoModal /\ handleDeletePlant(id)

SpecGrowth == Init /\ [][NextGrowth]_vars

\* App.tsx:347-357: the health check modal and its content
HealthCheckModalContent ==
    IF HealthCheckModalRendered THEN renderContent(isLoading, error, healthReport)
    ELSE <<"closed", "">>

\* The steps of the health checks that are under way
HealthCheckSteps ==
    \/ \E c \in calls : handleHealthCheck_preview(c)
    \/ \E c \in calls : handleHealthCheck_unreadable(c)
    \/ \E c \in calls, r \in ProviderReports : handleHealthCheck_then(c, r)
    \/ \E c \in calls, m \in HealthCheckErrors : handleHealthCheck_catch(c, m)
    \/ HealthCheckModalRendered /\ closeHealthCheckModal

\* The watering date typed when a plant is added, where the date does not
\* matter: the day of the clock
Today == {NowStart \div TicksPerDay}

\* Health checks and additions of plants, one request at a time, on a store
\* of up to two plants whose notes are edited and copied from reports.
NextHealth ==
    \/ AddPlantSteps(Len(plants) < 2 /\ nextId <= MaxIds, Today)
    \/ \E id \in PlantIds : NoModal /\ calls = {} /\ handleHealthCheck(id)
    \/ HealthCheckSteps
    \/ HealthCheckModalRendered /\ selectedPlant.notes \in NoteTexts /\ handleCopyToNotes
    \/ \E id \in PlantIds, t \in NoteTexts : NoModal /\ handleSaveNotes(id, t)
    \/ \E id \in PlantIds : NoModal /\ handleDeletePlant(id)

SpecHealth == Init /\ [][NextHealth]_vars

\* Health checks that overlap: the user closes the modal of a health check
\* that is under way and starts another one, on a store of up to two plants.
NextRace ==
    \/ AddPlantSteps(Len(plants) < 2 /\ nextId <= MaxIds, Today)
    \/ \E id \in PlantIds :
          NoModal /\ Cardinality(calls) < MaxInFlight /\ handleHealthCheck(id)
    \/ HealthCheckSteps
    \/ HealthCheckModalRendered /\ selectedPlant.notes \in NoteTexts /\ handleCopyToNotes

SpecRace == Init /\ [][NextRace]_vars

\* Every operation on a plant, on a store of up to two plants that are
\* watered once and get one growth entry each.
NextFrame ==
    \/ \/ NoModal /\ Len(plants) < 2 /\ nextId <= MaxIds /\ calls = {} /\ openAddModal
       \/ \E d \in Today : CanSubmitAddPlant /\ calls = {} /\ handleAddPlant(d)
       \/ \E c \in calls, f \in {1, MaxFreq} : handleAddPlant_then(c, f)
    \/ \E id \in PlantIds : NoModal /\ waterLog[id] = <<>> /\ handleWaterPlant(id)
    \/ \E id \in PlantIds, t \in NoteTexts : NoModal /\ handleSaveNotes(id, t)
    \/ \E id \in PlantIds : NoModal /\ handleDeletePlant(id)
    \/ \E id \in PlantIds : NoModal /\ onViewDetails(id)
    \/ DetailModalRendered /\ closeDetail
    \/ \E n \in {<<>>, <<" ", "F", " ">>} : DetailModalRendered /\ handleSaveNickname(n)
    \/ \E typed \in {<<"0">>, <<"1", "5">>}, d \in {0} :
          /\ DetailModalRendered
          /\ growthLog[detailedPlant.id] = <<>>
          /\ handleAddGrowthSubmit(typed, d)

SpecFrame == Init /\ [][NextFrame]_vars

\* App.tsx:323-325: the dashboard is rendered for a user who is logged in
LoggedIn == currentUser # NoUser

\* No setPlants of the load effect is waiting for its render
Settled == ~queued.pending

\* The header and the dashboard can be used
Dashboard == LoggedIn /\ Settled /\ NoModal

\* Sessions of several accounts: sign-up, login, logout and change of the
\* email, with plants added and deleted.  A request for care information may
\* complete in a later session than the one that made it.
NextAccount ==
    \/ renderLoadedPlants
    \/ \E e \in Emails : Settled /\ ~LoggedIn /\ login(e)
    \/ \E e \in Emails : Settled /\ ~LoggedIn /\ signup(e)
    \/ Dashboard /\ logout
    \/ \E e \in Emails : Dashboard /\ updateUser(e)
    \/ Dashboard /\ CanAdd /\ calls = {} /\ openAddModal
    \/ \E d \in Today :
          Settled /\ LoggedIn /\ CanSubmitAddPlant /\ calls = {} /\ handleAddPlant(d)
    \/ \E c \in calls : Settled /\ handleAddPlant_then(c, MaxFreq)
    \/ \E c \in calls : Settled /\ handleAddPlant_catch(c)
    \/ Settled /\ LoggedIn /\ isAddModalOpen /\ closeAddModal
    \/ \E id \in PlantIds : Dashboard /\ handleDeletePlant(id)

SpecAccount == Init /\ [][NextAccount]_vars

\* A plant as an earlier version of the application stored it: without
\* wateringHistory, nickname and growthHistory
LegacyPlant(id, day) ==
    [id |-> id, wateringFrequency |-> MaxFreq, lastWatered |-> ParseDate(day),
     notes |-> ""]

\* A stored plant that was added with the date of tomorrow and watered today
FutureSeedPlant(id) ==
    [id |-> id, wateringFrequency |-> MaxFreq, lastWatered |-> NowStart,
     wateringHistory |-> <<NowStart, ParseDate(2)>>, notes |-> ""]

\* The documents found in the storage
LegacyDocuments ==
    {<<LegacyPlant(1, d)>> : d \in SeedDays}
      \cup {<<LegacyPlant(1, d), FutureSeedPlant(2)>> : d \in SeedDays}

InitLegacy ==
    /\ \E document \in LegacyDocuments :
          InitApp(User("a@x"), [InitialStorage EXCEPT !["a@x"] = Item(document)])
    /\ probe = NoProbe

\* The plants of an earlier version are shown and watered
NextLegacy ==
    \/ CanTick /\ Tick
    \/ \E id \in PlantIds : Len(waterLog[id]) < 2 /\ handleWaterPlant(id)
    \/ \E id \in PlantIds : RenderSortedHistory(id)

SpecLegacy == InitLegacy /\ [][NextLegacy]_vars

\* The plant store while the storage is full at times: the save effect
\* catches what setItem throws.
NextStorage ==
    \/ storageFills
    \/ storageFrees
    \/ AddPlantSteps(Len(plants) < 2 /\ nextId <= MaxIds, Today)
    \/ \E id \in PlantIds : NoModal /\ waterLog[id] = <<>> /\ handleWaterPlant(id)
    \/ \E id \in PlantIds, t \in NoteTexts : NoModal /\ handleSaveNotes(id, t)
    \/ \E id \in PlantIds : NoModal /\ handleDeletePlant(id)

SpecStorage == Init /\ [][NextStorage]_vars

---------------------------------------------------------------------------
(* One evaluation of the due-date computations: the dashboard's sort key   *)
(* (App.tsx), a render of PlantCard and a render of PlantDetailModal for a  *)
(* plant with the given lastWatered and wateringFrequency, at the instant  *)
(* `at`, in the browser's time zone.                                       *)

\* Time zones: UTC, UTC-5 and UTC+10 without daylight saving time, and UTC-5
\* with clocks set forward at 02:00 local standard time of day
\* FirstProbeDay + 2 and set back at 02:00 local daylight time of day
\* FirstProbeDay + 5.
SpringForward == (FirstProbeDay + 2) * TicksPerDay + 2 + 5
FallBack == (FirstProbeDay + 5) * TicksPerDay + 2 + 4
Zones ==
    { Zone(0, 0, 0), Zone(-5, 0, 0), Zone(10, 0, 0), Zone(-5, SpringForward, FallBack) }

\* Hours of the day (UTC) at which things happen
HoursOfDay == {0, 5, 14, 23}

Instants(days) == {d * TicksPerDay + h : d \in days, h \in HoursOfDay}

Probe(lastWatered, freq, at, z) ==
    [ phase |-> "probe", lastWatered |-> lastWatered, wateringFrequency |-> freq,
      at |-> at, zone |-> z, app |-> <<>>, card |-> <<>>, detail |-> <<>> ]

\* Any plant, any time of evaluation
GeneralProbes ==
    { Probe(lw, f, at, z) :
        lw \in Instants(FirstProbeDay .. FirstProbeDay + MaxLastWateredSpan),
        f \in 1..MaxFreq,
        at \in Instants(FirstProbeDay .. FirstProbeDay + MaxNowSpan),
        z \in Zones }

\* A plant watered around 2024-01-01 (day 0) with wateringFrequency 7, looked
\* at around 2024-01-08 (day 7) and 2024-01-10 (day 9)
ScenarioProbes ==
    { Probe(lw, 7, at, z) : lw \in Instants(-1 .. 1), at \in Instants(6 .. 10), z \in Zones }

\* The state of the plant store, left alone while a derived view is evaluated
storeVars ==
    <<plants, localStorage, detailedPlant, asyncUI, now, nextId, nextEntryId, waterLog,
      growthLog, lastOp, session, addedBy>>

InitDue ==
    /\ InitStore
    /\ probe \in GeneralProbes \cup ScenarioProbes

\* App.tsx:242-249: the sort key of the plant
SortKey ==
    /\ probe.app = <<>>
    /\ probe' = [probe EXCEPT !.app =
          <<calculateDaysUntilWatering(probe.lastWatered, probe.wateringFrequency,
                                       probe.at, probe.zone)>>]
    /\ UNCHANGED storeVars

\* PlantCard: daysUntilWatering, wateringStatusText(), wateringStatusColor()
RenderPlantCard ==
    /\ probe.card = <<>>
    /\ LET daysUntilWatering ==
             PlantCard_daysUntilWatering(probe.lastWatered, probe.wateringFrequency,
                                         probe.at, probe.zone)
       IN  probe' = [probe EXCEPT !.card =
              <<daysUntilWatering, wateringStatusText(daysUntilWatering),
                wateringStatusColor(daysUntilWatering)>>]
    /\ UNCHANGED storeVars

\* PlantDetailModal: daysUntilWatering, wateringStatusText, wateringStatusColor
RenderPlantDetailModal ==
    /\ probe.detail = <<>>
    /\ LET diffDays ==
             PlantDetailModal_daysUntilWatering(probe.lastWatered, probe.wateringFrequency,
                                                probe.at, probe.zone)
       IN  probe' = [probe EXCEPT !.detail =
              <<diffDays, PlantDetailModal_wateringStatusText(diffDays),
                PlantDetailModal_wateringStatusColor(diffDays)>>]
    /\ UNCHANGED storeVars

NextDue == SortKey \/ RenderPlantCard \/ RenderPlantDetailModal

SpecDue == InitDue /\ [][NextDue]_vars

\* The dashboard of up to two plants with any watering frequency, added with
\* any date and watered, shown in both sort orders as the clock advances.
NextSort ==
    \/ NoModal /\ Len(plants) < 2 /\ nextId <= MaxIds /\ calls = {} /\ openAddModal
    \/ \E d \in SeedDays : CanSubmitAddPlant /\ calls = {} /\ handleAddPlant(d)
    \/ \E c \in calls, f \in 1..MaxFreq : handleAddPlant_then(c, f)
    \/ \E id \in PlantIds : NoModal /\ waterLog[id] = <<>> /\ handleWaterPlant(id)
    \/ CanTick /\ Tick
    \/ NoModal /\ plants # <<>> /\ toggleSortOrder
    \/ \E z \in Zones : NoModal /\ RenderDashboard(z)

SpecSort == Init /\ [][NextSort]_vars

---------------------------------------------------------------------------
(* The charts of the detail view: WateringChart.tsx and GrowthChart.tsx.   *)
(* A quotient of two numbers is held as the pair <<numerator, denominator>> *)
(* and never rounded.                                                      *)

Ratio(n, d) == <<n, d>>

Max2(a, b) == IF a >= b THEN a ELSE b

\* Math.max(...values) of a non-empty collection
MaxOf(values) == CHOOSE m \in values : \A v \in values : v <= m

\* Math.min(...values) of a non-empty collection
MinOf(values) == CHOOSE m \in values : \A v \in values : m <= v

\* Faulty variant of reverse: the history is taken as it is, newest first
reverse_NotReversed(seq) == seq

\* Array.prototype.reverse
reverse(seq) == [k \in 1..Len(seq) |-> seq[Len(seq) + 1 - k]]

\* Faulty variant of sliceLast: nothing is cut
sliceLast_Everything(seq, n) == seq

\* Array.prototype.slice(-n)
sliceLast(seq, n) == IF Len(seq) <= n THEN seq ELSE SubSeq(seq, Len(seq) - n + 1, Len(seq))

\* toLocaleDateString(undefined, {month, day}): the local calendar day of the
\* instant, as the local day number
toLocaleDateString(t, z) == getDate(t, z)

\* WateringChart 13-29: one bar for every two neighbours of the history in
\* chronological order
WateringChart_chartData(history, z) ==
    LET chronologicalHistory == reverse(history)
    IN  [ k \in 1..(Len(chronologicalHistory) - 1) |->
            LET i == k + 1
                dateCurrent == chronologicalHistory[i]
                datePrevious == chronologicalHistory[i - 1]
                diffTime == Abs(dateCurrent - datePrevious)
                diffDays == Ceil(diffTime, TicksPerDay)
            IN  [date |-> toLocaleDateString(dateCurrent, z), days |-> diffDays] ]

\* Faulty variant of WateringChart_overallMax: the ideal frequency is left
\* out of the scale
WateringChart_overallMax_DataOnly(chartData, idealFrequency) ==
    LET maxDataValue == MaxOf({chartData[k].days : k \in 1..Len(chartData)} \cup {0})
    IN  Number(12 * maxDataValue)

\* WateringChart 32-33: Math.max(maxDataValue, idealFrequency) * 1.2, in tenths
WateringChart_overallMax(chartData, idealFrequency) ==
    LET maxDataValue == MaxOf({chartData[k].days : k \in 1..Len(chartData)} \cup {0})
    IN  Number(12 * Max2(maxDataValue, idealFrequency))

\* WateringChart 9-36: the useMemo.  A history that is undefined is the empty
\* sequence.
WateringChart_useMemo(history, idealFrequency, z) ==
    IF Len(history) < 2 THEN [data |-> <<>>, maxDays |-> Number(10 * idealFrequency)]
    ELSE LET chartData == WateringChart_chartData(history, z)
             overallMax == WateringChart_overallMax(chartData, idealFrequency)
         IN  [data |-> sliceLast(chartData, 8), maxDays |-> overallMax]

\* WateringChart 38-72: what is drawn.  idealLinePosition and the height of a
\* bar are percentages; a percentage with denominator 0 is NaN or Infinity
\* and NaN <= 100 is false.
WateringChart(history, idealFrequency, z) ==
    LET memo == WateringChart_useMemo(history, idealFrequency, z)
        data == memo.data
        maxDays == memo.maxDays
        idealLinePosition == Ratio(idealFrequency * 10 * 100, maxDays.tenths)
    IN  [ data |-> data,
          maxDays |-> maxDays,
          idealLinePosition |-> idealLinePosition,
          idealLineRendered |->
              idealLinePosition[2] > 0 /\ idealLinePosition[1] <= 100 * idealLinePosition[2],
          barHeights |->
              [k \in 1..Len(data) |-> Ratio(data[k].days * 10 * 100, maxDays.tenths)] ]

\* Constants of GrowthChart 22-24
width == 500
height == 200
padding == [top |-> 20, right |-> 20, bottom |-> 40, left |-> 40]

\* Heights are held in tenths; GrowthChart computes with them in hundredths,
\* in which 1.2 times a height is a whole number.
Hundredths(tenths) == 10 * tenths

\* Faulty variant of GrowthChart_maxHeight: no headroom
GrowthChart_maxHeight_NoHeadroom(heights) == Hundredths(MaxOf(heights))

\* GrowthChart 20: Math.max(...heights) * 1.2, in hundredths
GrowthChart_maxHeight(heights) == 12 * MaxOf(heights)

\* GrowthChart 26-29
getX(date, minDate, maxDate) ==
    IF maxDate = minDate THEN Ratio(padding.left, 1)
    ELSE Ratio(padding.left * (maxDate - minDate)
                 + (date - minDate) * (width - padding.left - padding.right),
               maxDate - minDate)

\* GrowthChart 31-34, with minHeight = 0
getY(h, minHeight, maxHeight) ==
    IF maxHeight = minHeight THEN Ratio(height - padding.bottom, 1)
    ELSE Ratio((height - padding.bottom) * (maxHeight - minHeight)
                 - (h - minHeight) * (height - padding.top - padding.bottom),
               maxHeight - minHeight)

\* GrowthChart 10-40: the points of the chart, or <<>> for null
GrowthChart_chartData(history) ==
    IF Len(history) < 2 THEN <<>>
    ELSE LET sortedHistory == sortByDateAscending(history)
             dates == {ParseDate(sortedHistory[k].date) : k \in 1..Len(sortedHistory)}
             heights == {sortedHistory[k].height : k \in 1..Len(sortedHistory)}
             minDate == MinOf(dates)
             maxDate == MaxOf(dates)
             minHeight == 0
             maxHeight == GrowthChart_maxHeight(heights)
         IN  [ k \in 1..Len(sortedHistory) |->
                 [ x |-> getX(ParseDate(sortedHistory[k].date), minDate, maxDate),
                   y |-> getY(Hundredths(sortedHistory[k].height), minHeight, maxHeight),
                   original |-> sortedHistory[k] ] ]

\* One evaluation of a chart: the component is rendered for a history
HistoryNewest == (FirstProbeDay + 6) * TicksPerDay + 3

GapHours == {0, 5, 24, 30, 72}

\* n waterings, newest first, every gap hours apart
EvenHistory(n, gap) == [k \in 1..n |-> HistoryNewest - (k - 1) * gap]

\* n waterings, newest first, a day apart, but five days between the ones at
\* positions pos and pos + 1
LongGapHistory(n, pos) ==
    [k \in 1..n |-> HistoryNewest - (k - 1) * TicksPerDay
                      - (IF k > pos THEN 4 * TicksPerDay ELSE 0)]

\* Histories of a plant that was added with a watering date in the future
\* and watered since: the seed is last and is the latest
FutureSeedHistories ==
    { <<HistoryNewest, HistoryNewest + TicksPerDay>>,
      <<HistoryNewest, HistoryNewest - 5, HistoryNewest + 2 * TicksPerDay>> }

WateringHistories ==
    {EvenHistory(n, gap) : n \in 0..HistoryLimit, gap \in GapHours}
      \cup UNION {{LongGapHistory(n, pos) : pos \in 1..(n - 1)} : n \in 2..HistoryLimit}
      \cup FutureSeedHistories

WateringChartProbes ==
    { [phase |-> "WateringChart", history |-> h, idealFrequency |-> f, zone |-> z,
       rendered |-> FALSE, chart |-> <<>>] :
        h \in WateringHistories, f \in 1..MaxFreq, z \in Zones }

\* Growth histories as App stores them: up to three entries, sorted by date,
\* heights 0.5, 10 and 15 cm
ChartGrowthDays == {0, 15, 31}
ChartHeights == {5, 100, 150}

GrowthHistories ==
    LET Entries(k) == [id : {k}, date : ChartGrowthDays, height : ChartHeights]
        all == {<<>>} \cup {<<a>> : a \in Entries(1)}
                 \cup {<<a, b>> : a \in Entries(1), b \in Entries(2)}
                 \cup {<<a, b, c>> : a \in Entries(1), b \in Entries(2), c \in Entries(3)}
    IN  {h \in all : \A i \in 1..(Len(h) - 1) : h[i].date <= h[i + 1].date}

GrowthChartProbes ==
    { [phase |-> "GrowthChart", history |-> h, rendered |-> FALSE, chart |-> <<>>] :
        h \in GrowthHistories }

InitChart ==
    /\ InitStore
    /\ probe \in WateringChartProbes \cup GrowthChartProbes

\* PlantDetailModal 226: <WateringChart history=... idealFrequency=... />
RenderWateringChart ==
    /\ probe.phase = "WateringChart" /\ ~probe.rendered
    /\ probe' = [probe EXCEPT !.rendered = TRUE,
                              !.chart = WateringChart(probe.history, probe.idealFrequency,
                                                      probe.zone)]
    /\ UNCHANGED storeVars

\* PlantDetailModal 197: <GrowthChart history=... />
RenderGrowthChart ==
    /\ probe.phase = "GrowthChart" /\ ~probe.rendered
    /\ probe' = [probe EXCEPT !.rendered = TRUE, !.chart = GrowthChart_chartData(probe.history)]
    /\ UNCHANGED storeVars

NextChart == RenderWateringChart \/ RenderGrowthChart

SpecChart == InitChart /\ [][NextChart]_vars

---------------------------------------------------------------------------
(* Claims about the due date and the status (checked under SpecDue) *)

\* The local calendar dates the claims speak of
LastWateredDay == getDate(probe.lastWatered, probe.zone)
EvaluationDay == getDate(probe.at, probe.zone)

\* Every daysUntilWatering computed so far for the probe
ComputedDays ==
    (IF probe.app # <<>> THEN {probe.app[1]} ELSE {})
      \cup (IF probe.card # <<>> THEN {probe.card[1]} ELSE {})
      \cup (IF probe.detail # <<>> THEN {probe.detail[1]} ELSE {})

\* C7: for lastWatered on local calendar date D and wateringFrequency F >= 1,
\* the days until watering computed by App, PlantCard and PlantDetailModal at
\* any time of day of date D + F is 0, of date D + F - 1 is 1 and of date
\* D + F + k (k >= 1) is -k, whatever the times of day of lastWatered and of
\* the evaluation.
C7_DaysByCalendarDate ==
    probe.phase = "probe" =>
      \A d \in ComputedDays :
        EvaluationDay >= LastWateredDay + probe.wateringFrequency - 1
          => d = LastWateredDay + probe.wateringFrequency - EvaluationDay

\* C8 as stated: the card's status text is "Overdue by |d| day(s)" for d < 0,
\* "Needs watering today" for d = 0, "Water in 1 day" for d = 1 and
\* "Water in d days" for d > 1.
C8_StatusTextAsStated ==
    (probe.phase = "probe" /\ probe.card # <<>>) =>
      LET d == probe.card[1]
          text == probe.card[2]
      IN  /\ d < 0 => text = "Overdue by " \o ToString(-d) \o " day(s)"
          /\ d = 0 => text = "Needs watering today"
          /\ d = 1 => text = "Water in 1 day"
          /\ d > 1 => text = "Water in " \o ToString(d) \o " days"

\* C8 (amended): the card's status text is "Overdue by |d| day(s)" for d < 0,
\* "Needs watering today!" for d = 0, "Water in 1 day" for d = 1 and
\* "Water in d days" for d > 1, and the detail view's is "Overdue by |d| days",
\* "Today", "In 1 day" and "In d days" for the same four cases; a plant whose
\* lastWatered is on local date 2024-01-01 (day 0) with wateringFrequency 7
\* reads "Needs watering today!" on 2024-01-08 (day 7) and
\* "Overdue by 2 day(s)" on 2024-01-10 (day 9).
C8_StatusText ==
    probe.phase = "probe" =>
      /\ probe.card # <<>> =>
           LET d == probe.card[1]
               text == probe.card[2]
           IN  /\ d < 0 => text = "Overdue by " \o ToString(-d) \o " day(s)"
               /\ d = 0 => text = "Needs watering today!"
               /\ d = 1 => text = "Water in 1 day"
               /\ d > 1 => text = "Water in " \o ToString(d) \o " days"
               /\ (LastWateredDay = 0 /\ probe.wateringFrequency = 7) =>
                    /\ EvaluationDay = 7 => text = "Needs watering today!"
                    /\ EvaluationDay = 9 => text = "Overdue by 2 day(s)"
      /\ probe.detail # <<>> =>
           LET d == probe.detail[1]
               text == probe.detail[2]
           IN  /\ d < 0 => text = "Overdue by " \o ToString(-d) \o " days"
               /\ d = 0 => text = "Today"
               /\ d = 1 => text = "In 1 day"
               /\ d > 1 => text = "In " \o ToString(d) \o " days"

\* C8 witness: the card of the plant watered on 2024-01-01 with frequency 7
\* has been rendered on 2024-01-10 and reads "Overdue by 2 day(s)".
C8_Witness ==
    /\ probe.phase = "probe"
    /\ probe.card # <<>>
    /\ LastWateredDay = 0
    /\ probe.wateringFrequency = 7
    /\ EvaluationDay = 9
    /\ probe.card[2] = "Overdue by 2 day(s)"

\* The tier a CSS class of the card or of the detail view stands for
ColorTier(class) ==
    IF class \in { "bg-red-100 text-red-800 dark:bg-red-900/50 dark:text-red-300",
                   "text-red-600 dark:text-red-400" } THEN "urgent"
    ELSE IF class \in { "bg-yellow-100 text-yellow-800 dark:bg-yellow-900/50 dark:text-yellow-300",
                        "text-yellow-600 dark:text-yellow-400" } THEN "warning"
    ELSE IF class \in { "bg-green-100 text-green-800 dark:bg-green-900/50 dark:text-green-300",
                        "text-green-600 dark:text-green-400" } THEN "normal"
    ELSE "none"

TierOfDays(d) == IF d <= 0 THEN "urgent" ELSE IF d <= 2 THEN "warning" ELSE "normal"

\* C9: the colour tier is urgent for d <= 0, warning for 1 <= d <= 2 and
\* normal for d > 2, on the card and in the detail view alike (the same tier
\* for the same d), and a card whose status is overdue or due today is in the
\* urgent tier.
C9_ColorTiers ==
    probe.phase = "probe" =>
      /\ probe.card # <<>> =>
           /\ ColorTier(probe.card[3]) = TierOfDays(probe.card[1])
           /\ (probe.card[1] < 0 \/ probe.card[2] = "Needs watering today!")
                => ColorTier(probe.card[3]) = "urgent"
      /\ probe.detail # <<>> => ColorTier(probe.detail[3]) = TierOfDays(probe.detail[1])
      /\ (probe.card # <<>> /\ probe.detail # <<>> /\ probe.card[1] = probe.detail[1])
           => ColorTier(probe.card[3]) = ColorTier(probe.detail[3])

\* C9 witness: card and detail view rendered for a plant due in 2 days, both
\* in the warning tier.
C9_Witness ==
    /\ probe.phase = "probe"
    /\ probe.card # <<>>
    /\ probe.detail # <<>>
    /\ probe.card[1] = 2
    /\ probe.detail[1] = 2
    /\ ColorTier(probe.card[3]) = "warning"
    /\ ColorTier(probe.detail[3]) = "warning"

---------------------------------------------------------------------------
(* Claims about the watering history (checked under Spec and SpecWater) *)

SeqMax(h) == CHOOSE m \in {h[j] : j \in 1..Len(h)} : \A j \in 1..Len(h) : h[j] <= m

\* C1: after any sequence of add, water, growth entry, notes, nickname and
\* delete operations, the wateringHistory of every plant has at most 10
\* entries.
C1_HistoryAtMostTen ==
    \A k \in 1..Len(plants) : Len(plants[k].wateringHistory) <= 10

\* C1 witness: a plant watered 11 times, with notes and a growth entry, whose
\* history holds 10 entries.
C1_Witness ==
    \E k \in 1..Len(plants) :
        /\ Len(waterLog[plants[k].id]) = 11
        /\ Len(plants[k].wateringHistory) = 10
        /\ plants[k].notes # ""
        /\ plants[k].growthHistory # <<>>

\* C2: after any watering of a plant, whatever the watering date it was
\* created with, its lastWatered is the maximum timestamp of its
\* wateringHistory.
C2_LastWateredIsMax ==
    \A k \in 1..Len(plants) :
        waterLog[plants[k].id] # <<>>
          => plants[k].lastWatered = SeqMax(plants[k].wateringHistory)

\* C3: from the moment a plant is added until it is deleted its
\* wateringHistory is not empty; until its first watering the history is
\* exactly the creation-time watering date, which is its lastWatered.
C3_HistoryNeverEmpty ==
    \A k \in 1..Len(plants) :
        /\ Len(plants[k].wateringHistory) >= 1
        /\ waterLog[plants[k].id] = <<>> =>
             /\ plants[k].wateringHistory = <<plants[k].lastWatered>>
             /\ \E d \in SeedDays : plants[k].lastWatered = ParseDate(d)

\* C3 witness: a plant that was never watered, after a notes edit, a nickname
\* edit and a growth entry, still has its one-element history.
C3_Witness ==
    \E k \in 1..Len(plants) :
        /\ waterLog[plants[k].id] = <<>>
        /\ plants[k].notes # ""
        /\ plants[k].nickname # <<>>
        /\ plants[k].growthHistory # <<>>
        /\ plants[k].wateringHistory = <<ParseDate(2)>>

\* C4: one handleWaterPlant step on a plant with history H yields the first 10
\* elements of <<now>> \o H and lastWatered = now: the new event is first, the
\* previous elements follow in their order, and of a 10-entry H exactly the
\* last entry is dropped.
C4_WaterStep ==
    [][ \A id \in PlantIds :
          Len(waterLog'[id]) = Len(waterLog[id]) + 1 =>
            LET H == PlantIn(plants, id).wateringHistory
                q == PlantIn(plants', id)
                H2 == q.wateringHistory
            IN  /\ q.lastWatered = now
                /\ Len(H2) = (IF Len(H) < 10 THEN Len(H) + 1 ELSE 10)
                /\ H2[1] = now
                /\ \A j \in 2..Len(H2) : H2[j] = H[j - 1] ]_vars

\* C4 witness: a plant right after the watering that first overflowed its
\* history: 10 waterings logged, the history is these 10, the seed is gone.
C4_Witness ==
    \E k \in 1..Len(plants) :
        /\ Len(waterLog[plants[k].id]) = 10
        /\ Len(plants[k].wateringHistory) = 10
        /\ plants[k].wateringHistory[1] = now
        /\ plants[k].wateringHistory[1] > plants[k].wateringHistory[10]

\* C5: after 11 waterings of a freshly added plant its wateringHistory has
\* exactly 10 entries, the 10 most recent watering events, newest first (the
\* seed and the first watering are gone).
C5_AfterElevenWaterings ==
    \A k \in 1..Len(plants) :
        LET log == waterLog[plants[k].id]
            H == plants[k].wateringHistory
        IN  Len(log) = 11 =>
              /\ Len(H) = 10
              /\ \A j \in 1..10 : H[j] = log[12 - j]

\* C5 witness: a plant watered 11 times, at more than one instant.
C5_Witness ==
    \E k \in 1..Len(plants) :
        LET log == waterLog[plants[k].id]
        IN  /\ Len(log) = 11
            /\ log[2] < log[11]
            /\ plants[k].wateringHistory[1] = log[11]

\* C6: the stored wateringHistory of every plant is newest-first
\* (non-increasing from index 1 on) after any sequence of add-plant and
\* water-plant operations, for any creation-time watering date.
C6_NewestFirst ==
    \A k \in 1..Len(plants) :
        LET H == plants[k].wateringHistory
        IN  \A j \in 1..(Len(H) - 1) : H[j] >= H[j + 1]

---------------------------------------------------------------------------
(* Claims about the growth history (checked under SpecGrowth) *)

\* C10: after any sequence of handleAddGrowthEntry calls, with dates in any
\* order and repeated, the growthHistory of every plant is non-decreasing by
\* date from front to back, holds every inserted entry exactly once, and
\* entries of one date are in their insertion order.
C10_GrowthSorted ==
    \A k \in 1..Len(plants) :
        LET G == plants[k].growthHistory
            log == growthLog[plants[k].id]
            Pos(e) == CHOOSE i \in 1..Len(log) : log[i] = e
        IN  /\ \A i, j \in 1..Len(G) : i < j => ParseDate(G[i].date) <= ParseDate(G[j].date)
            /\ Len(G) = Len(log)
            /\ \A i \in 1..Len(log) : Cardinality({j \in 1..Len(G) : G[j] = log[i]}) = 1
            /\ \A i, j \in 1..Len(G) : (i < j /\ G[i].date = G[j].date) => Pos(G[i]) < Pos(G[j])

\* C10 witness: three entries inserted out of order, two of them with the
\* same date; the history starts with the entry inserted last.
C10_Witness ==
    \E k \in 1..Len(plants) :
        LET G == plants[k].growthHistory
            log == growthLog[plants[k].id]
        IN  /\ Len(log) = 3
            /\ log[1].date = log[2].date
            /\ log[3].date < log[1].date
            /\ G = <<log[3], log[1], log[2]>>

---------------------------------------------------------------------------
(* Claims about the growth form and the detail view (checked under SpecGrowth) *)

\* The texts that are an empty, a non-numeric, a zero or a negative height
RefusedHeights ==
    { <<>>, <<"a", "b", "c">>, <<"1", "2", "a", "b", "c">>, <<"0">>, <<"0", ".", "0">>,
      <<"-", "5">> }

\* C11: submitting the growth form with an empty, non-numeric, zero or
\* negative height creates no growth entry and leaves the plant store (the
\* plants, the saved document, the plant of the detail view) unchanged, and
\* every stored growth entry has a height > 0.
C11_InvalidHeightIgnored ==
    /\ [](\A k \in 1..Len(plants) :
            \A j \in 1..Len(plants[k].growthHistory) : plants[k].growthHistory[j].height > 0)
    /\ [][ (lastOp'.op = "handleAddGrowthSubmit" /\ lastOp'.arg \in RefusedHeights)
             => /\ plants' = plants
                /\ persisted' = persisted
                /\ detailedPlant' = detailedPlant
                /\ growthLog' = growthLog ]_vars

\* C11 witness: a plant with one entry, right after a submission of height
\* "0" that was ignored.
C11_Witness ==
    /\ lastOp.op = "handleAddGrowthSubmit"
    /\ lastOp.arg = <<"0">>
    /\ \E k \in 1..Len(plants) :
          /\ plants[k].id = lastOp.plantId
          /\ Len(plants[k].growthHistory) = 1
          /\ Len(growthLog[plants[k].id]) = 1

\* C12: the current height shown by the detail view is the height of an entry
\* whose date is maximal among all growth entries of the plant, and is "N/A"
\* exactly when the plant has no growth entry; with the entries
\* (2024-01-01, 10) and (2024-02-01, 15), inserted in either order, it is 15.
C12_CurrentHeight ==
    DetailModalRendered =>
      LET all == growthLog[detailedPlant.id]
          shown == currentHeightText(detailedPlant)
          IsLatest(e) == \A j \in 1..Len(all) : all[j].date <= e.date
      IN  /\ (shown = "N/A") <=> (all = <<>>)
          /\ all # <<>> =>
               \E i \in 1..Len(all) :
                   IsLatest(all[i]) /\ shown = NumberToString(all[i].height) \o " cm"
          /\ ( Len(all) = 2
               /\ {<<all[j].date, all[j].height>> : j \in 1..2} = {<<0, 100>>, <<31, 150>>} )
               => shown = "15 cm"

\* C12 witness: the detail view of a plant whose entry of 2024-02-01 (15 cm)
\* was inserted before its entry of 2024-01-01 (10 cm).
C12_Witness ==
    /\ DetailModalRendered
    /\ LET all == growthLog[detailedPlant.id]
       IN  /\ Len(all) = 2
           /\ <<all[1].date, all[1].height>> = <<31, 150>>
           /\ <<all[2].date, all[2].height>> = <<0, 100>>
    /\ currentHeightText(detailedPlant) = "15 cm"

---------------------------------------------------------------------------
(* Claims about the charts (checked under SpecChart) *)

WateringChartRendered == probe.phase = "WateringChart" /\ probe.rendered

Min2(a, b) == IF a <= b THEN a ELSE b

\* The whole days needed to cover the time between two instants: the least
\* d >= 0 with d days >= |t - u|
DaysBetween(t, u) ==
    LET span == IF t >= u THEN t - u ELSE u - t
    IN  CHOOSE d \in 0..span : d * 24 >= span /\ (d = 0 \/ (d - 1) * 24 < span)

\* The j-th pair of neighbours of a newest-first history, counted from the
\* oldest pair (j = 1) to the newest (j = n - 1)
PairEarlier(h, j) == h[Len(h) - j + 1]
PairLater(h, j) == h[Len(h) - j]

IsNewestFirst(h) == \A i \in 1..(Len(h) - 1) : h[i] >= h[i + 1]

\* C13: for a watering history of length n the interval series of
\* WateringChart has length min(8, n - 1) if n >= 2 and is empty if n < 2.
C13_SeriesLength ==
    WateringChartRendered =>
      LET n == Len(probe.history)
      IN  Len(probe.chart.data) = (IF n >= 2 THEN Min2(8, n - 1) ELSE 0)

\* C13 witness: the chart of a full history of 10 waterings shows 8 intervals.
C13_Witness ==
    /\ WateringChartRendered
    /\ Len(probe.history) = 10
    /\ Len(probe.chart.data) = 8

\* C14: for a newest-first history of n >= 2 timestamps, the k-th element of
\* the series is ceil(|later - earlier| / 1 day) >= 0 for a pair of
\* neighbours of the chronological history, is labelled with the date of the
\* later timestamp of the pair, the series is in chronological order, and of
\* more than 8 pairs the 8 closest to the newest timestamp are kept.
C14_SeriesContent ==
    (WateringChartRendered /\ Len(probe.history) >= 2 /\ IsNewestFirst(probe.history)) =>
      LET h == probe.history
          data == probe.chart.data
          dropped == (Len(h) - 1) - Len(data)
      IN  /\ dropped = (IF Len(h) - 1 > 8 THEN Len(h) - 1 - 8 ELSE 0)
          /\ \A k \in 1..Len(data) :
                LET later == PairLater(h, dropped + k)
                    earlier == PairEarlier(h, dropped + k)
                IN  /\ data[k].days = DaysBetween(later, earlier)
                    /\ data[k].days >= 0
                    /\ data[k].date = getDate(later, probe.zone)
                    /\ k < Len(data) => later <= PairLater(h, dropped + k + 1)

\* C14 witness: 10 waterings, five days between the two oldest and a day
\* between the others: the 5-day interval is not shown, 8 intervals of 1 day
\* are, labelled with dates that differ.
C14_Witness ==
    /\ WateringChartRendered
    /\ probe.history = LongGapHistory(10, 9)
    /\ \A k \in 1..8 : probe.chart.data[k].days = 1
    /\ probe.chart.data[1].date < probe.chart.data[8].date

\* C15: for a history of at least 2 timestamps and idealFrequency >= 1 the
\* vertical scale is 1.2 * max(max of all computed intervals, idealFrequency),
\* the position of the ideal line (idealFrequency / scale) and the height of
\* every bar shown (interval / scale) are at most 100%, and the ideal line is
\* rendered.
C15_VerticalScale ==
    (WateringChartRendered /\ Len(probe.history) >= 2 /\ probe.idealFrequency >= 1) =>
      LET h == probe.history
          chart == probe.chart
          intervals == {DaysBetween(h[i], h[i + 1]) : i \in 1..(Len(h) - 1)}
          largest == CHOOSE m \in intervals \cup {probe.idealFrequency} :
                        \A v \in intervals \cup {probe.idealFrequency} : v <= m
      IN  /\ ~chart.maxDays.nan
          /\ chart.maxDays.tenths = 12 * largest
          /\ 10 * chart.idealLinePosition[1] = 1000 * 10 * probe.idealFrequency
          /\ chart.idealLinePosition[2] = 12 * largest
          /\ chart.idealLinePosition[1] <= 100 * chart.idealLinePosition[2]
          /\ chart.idealLineRendered
          /\ \A k \in 1..Len(chart.barHeights) :
                /\ chart.barHeights[k][2] = 12 * largest
                /\ chart.barHeights[k][1] = 1000 * chart.data[k].days
                /\ chart.barHeights[k][1] <= 100 * chart.barHeights[k][2]

\* C15 witness: 10 waterings whose one 5-day interval is not among the 8
\* shown, ideal frequency 3: the scale is 6 days.
C15_Witness ==
    /\ WateringChartRendered
    /\ probe.history = LongGapHistory(10, 9)
    /\ probe.idealFrequency = 3
    /\ probe.chart.maxDays = Number(60)
    /\ probe.chart.idealLineRendered

GrowthChartDrawn ==
    probe.phase = "GrowthChart" /\ probe.rendered /\ Len(probe.history) >= 2

\* The point at the fraction p / q of the way from a to b, as a quotient
Lerp(a, b, p, q) == <<a * q + (b - a) * p, q>>

SameQuotient(r, t) == r[1] * t[2] = t[1] * r[2]

\* The plot area of the growth chart: left and right edge, baseline and top
LeftEdge == 40
RightEdge == 480
Baseline == 160
Top == 20

EarliestDate(h) == CHOOSE d \in {h[j].date : j \in 1..Len(h)} : \A j \in 1..Len(h) : d <= h[j].date
LatestDate(h) == CHOOSE d \in {h[j].date : j \in 1..Len(h)} : \A j \in 1..Len(h) : h[j].date <= d
LargestHeight(h) ==
    CHOOSE m \in {h[j].height : j \in 1..Len(h)} : \A j \in 1..Len(h) : h[j].height <= m

\* The growth series has a point for every entry, in ascending order of
\* date, with x interpolated between the earliest and the latest date, or at
\* the left edge if all dates are equal
GrowthSeriesX ==
    LET h == probe.history
        points == probe.chart
    IN  /\ Len(points) = Len(h)
        /\ \A k \in 1..Len(points) :
              /\ points[k].original = h[k]
              /\ k < Len(points) => points[k].original.date <= points[k + 1].original.date
              /\ IF EarliestDate(h) = LatestDate(h)
                   THEN SameQuotient(points[k].x, <<LeftEdge, 1>>)
                   ELSE SameQuotient(points[k].x,
                                     Lerp(LeftEdge, RightEdge, h[k].date - EarliestDate(h),
                                          LatestDate(h) - EarliestDate(h)))

\* y of the k-th point is interpolated between 0 (the baseline) and
\* 1.2 * max(height) (the top)
InterpolatedY(k) ==
    SameQuotient(probe.chart[k].y,
                 Lerp(Baseline, Top, 10 * probe.history[k].height,
                      12 * LargestHeight(probe.history)))

AllHeightsEqual == \A i, j \in 1..Len(probe.history) : probe.history[i].height = probe.history[j].height

\* C16 as stated: in the growth series (>= 2 entries, ascending by date) x is
\* the linear interpolation of the date between the earliest and the latest
\* date and y that of the height between 0 and 1.2 * max(height); if all
\* dates are equal every point is at the left edge, and if all heights are
\* equal every point is at the baseline.
C16_PointsAsStated ==
    GrowthChartDrawn =>
      /\ GrowthSeriesX
      /\ \A k \in 1..Len(probe.chart) :
            IF AllHeightsEqual THEN SameQuotient(probe.chart[k].y, <<Baseline, 1>>)
            ELSE InterpolatedY(k)

\* C16 (amended): x is as stated (interpolated between the earliest and the
\* latest date, at the left edge if all dates are equal), and y is the linear
\* interpolation of the height between 0 and 1.2 * max(height) for every
\* series, equal heights included: points of equal heights lie at 1 / 1.2 of
\* the plot height above the baseline, not on it.
C16_Points ==
    GrowthChartDrawn =>
      /\ GrowthSeriesX
      /\ \A k \in 1..Len(probe.chart) :
            /\ InterpolatedY(k)
            /\ AllHeightsEqual =>
                 SameQuotient(probe.chart[k].y, <<12 * Baseline - 10 * (Baseline - Top), 12>>)

\* C16 witness: three entries of 10 cm on three dates: the points span the
\* plot from the left to the right edge, all above the baseline.
C16_Witness ==
    /\ GrowthChartDrawn
    /\ Len(probe.history) = 3
    /\ \A k \in 1..3 : probe.history[k].height = 100
    /\ SameQuotient(probe.chart[1].x, <<LeftEdge, 1>>)
    /\ SameQuotient(probe.chart[3].x, <<RightEdge, 1>>)
    /\ \A k \in 1..3 : ~SameQuotient(probe.chart[k].y, <<Baseline, 1>>)

---------------------------------------------------------------------------
(* Health checks and failed additions, one request at a time (SpecHealth) *)

HealthCheckOps ==
    { "handleHealthCheck", "handleHealthCheck_preview", "handleHealthCheck_unreadable",
      "handleHealthCheck_then", "handleHealthCheck_catch", "closeHealthCheckModal" }

C18_FailedAddLeavesPlants ==
    [][ lastOp'.op = "handleAddPlant_catch"
          => /\ plants' = plants
             /\ persisted' = persisted
             /\ error' = "Failed to add plant. Could not get care info. Please try again."
             /\ isAddModalOpen' = isAddModalOpen
             /\ isLoading' = FALSE
      ]_vars

\* The request has failed with a plant in the list and the modal open
C18_Witness ==
    /\ lastOp.op = "handleAddPlant_catch"
    /\ Len(plants) = 1
    /\ persisted = JSON_stringify(plants)
    /\ isAddModalOpen
    /\ error # ""
    /\ ~isLoading

---------------------------------------------------------------------------
(* Health checks that overlap (SpecRace) *)

HealthChecksUnderWay == {c \in calls : c.handler = "handleHealthCheck"}

\* C19: when every health check that was under way has completed, the
\* report and error held by the application, and with them the content of
\* the open modal, are the ones written by the response that completed
\* last: after an answer its report and no error, after a failure its error
\* message and no report.
C19_LastResponseShown ==
    HealthChecksUnderWay = {}
      => /\ lastOp.op = "handleHealthCheck_then"
              => /\ reportFrom = lastOp.arg
                 /\ error = ""
                 /\ HealthCheckModalRendered
                      => HealthCheckModalContent = renderContent(FALSE, "", healthReport)
         /\ lastOp.op = "handleHealthCheck_catch"
              => /\ errorFrom = lastOp.arg
                 /\ healthReport = NoReport
                 /\ HealthCheckModalRendered
                      => HealthCheckModalContent = <<"error", error>>

---------------------------------------------------------------------------
(* What the operations on a plant leave alone (SpecFrame) *)

IdsOf(list) == [k \in 1..Len(list) |-> list[k].id]

WithoutId(ids, id) ==
    LET keep(x) == x # id
    IN  SelectSeq(ids, keep)

NotesOps == {"handleSaveNotes", "handleCopyToNotes"}

OpsOnOnePlant ==
    { "handleWaterPlant", "handleSaveNotes", "handleCopyToNotes", "handleDeletePlant",
      "handleSaveNickname", "handleAddGrowthSubmit" }

\* C20: in every step the ids of the plants and their order stay as they
\* are, except that an added plant comes last and a deleted one is taken
\* out; no plant that stays changes its wateringFrequency; the notes of a
\* plant change only in a step that updates the notes of that plant; and a
\* step that operates on one plant leaves every other plant as it is.
C20_OperationsFrame ==
    [][ LET before == IdsOf(plants)
            after  == IdsOf(plants')
            kept   == PlantIds \cap {after[k] : k \in 1..Len(after)}
        IN  /\ CASE lastOp'.op = "handleAddPlant_then" ->
                      after = Append(before, lastOp'.plantId)
                 [] lastOp'.op = "handleDeletePlant" ->
                      after = WithoutId(before, lastOp'.plantId)
                 [] OTHER -> after = before
            /\ \A id \in kept :
                  /\ PlantIn(plants', id).wateringFrequency
                       = PlantIn(plants, id).wateringFrequency
                  /\ PlantIn(plants', id).notes # PlantIn(plants, id).notes
                       => lastOp'.op \in NotesOps /\ lastOp'.plantId = id
                  /\ (lastOp'.op \in OpsOnOnePlant /\ lastOp'.plantId # id)
                       => PlantIn(plants', id) = PlantIn(plants, id)
      ]_vars

\* The second of two plants of different watering frequencies, both with
\* notes, has just been watered and both still have their notes
C20_Witness ==
    /\ Len(plants) = 2
    /\ lastOp.op = "handleWaterPlant"
    /\ lastOp.plantId = plants[2].id
    /\ Len(plants[2].wateringHistory) = 2
    /\ plants[1].wateringFrequency # plants[2].wateringFrequency
    /\ plants[1].notes = "repotted"
    /\ plants[2].notes = "repotted"

---------------------------------------------------------------------------
(* Deletion (SpecHealth) *)

\* The ids of the plants of the stored document
PersistedIds == {persisted[k].id : k \in 1..Len(persisted)}

---------------------------------------------------------------------------
(* The watering history shown by PlantCard (SpecLegacy) *)

IsPermutation(a, b) ==
    /\ Len(a) = Len(b)
    /\ \A x \in {a[k] : k \in 1..Len(a)} \cup {b[k] : k \in 1..Len(b)} :
          Cardinality({k \in 1..Len(a) : a[k] = x})
            = Cardinality({k \in 1..Len(b) : b[k] = x})

IsDescending(a) == \A k \in 1..(Len(a) - 1) : a[k] >= a[k + 1]

HasHistory(p) == "wateringHistory" \in DOMAIN p

\* C22: the history that PlantCard shows is a permutation of the stored
\* wateringHistory in descending order of date, and computing it leaves the
\* plants (so the stored wateringHistory, its contents and its order) as
\* they are; for a plant without a wateringHistory the view is <<lastWatered>>,
\* and handleWaterPlant turns such a plant into one whose wateringHistory is
\* <<now, lastWatered>>.
C22_SortedHistoryView ==
    [][ /\ lastOp'.op = "PlantCard_sortedHistory"
          => LET p == PlantIn(plants, lastOp'.plantId)
             IN  /\ plants' = plants /\ localStorage' = localStorage
                 /\ IsDescending(probe'.view)
                 /\ IF HasHistory(p)
                      THEN IsPermutation(probe'.view, p.wateringHistory)
                      ELSE probe'.view = <<p.lastWatered>>
        /\ (lastOp'.op = "handleWaterPlant"
              /\ ~HasHistory(PlantIn(plants, lastOp'.plantId)))
          => PlantIn(plants', lastOp'.plantId).wateringHistory
               = <<now, PlantIn(plants, lastOp'.plantId).lastWatered>>
      ]_vars

\* The card of a plant whose stored history is not in descending order has
\* computed its view, next to a plant without a history that has been watered
C22_Witness ==
    /\ lastOp.op = "PlantCard_sortedHistory"
    /\ lastOp.plantId = 2
    /\ Len(plants) = 2
    /\ plants[2].wateringHistory = <<NowStart, ParseDate(2)>>
    /\ probe.view = <<ParseDate(2), NowStart>>
    /\ HasHistory(plants[1])
    /\ plants[1].wateringHistory = <<NowStart, ParseDate(0)>>

---------------------------------------------------------------------------
(* Writes to the storage that fail (SpecStorage) *)

PlantOps ==
    {"handleAddPlant_then", "handleWaterPlant", "handleSaveNotes", "handleDeletePlant"}

\* C23: when setItem throws in the save effect, the operation still takes
\* effect on the plants list (the added plant is there, the watered plant has
\* the new lastWatered, the notes are the ones saved, the deleted plant is
\* gone), the stored item stays as it was and no error is set; the
\* operations stay possible, and a save that succeeds stores a document of
\* the whole current list.
C23_FailedSaveIsSwallowed ==
    [][ lastOp'.op \in PlantOps
          => LET id == lastOp'.plantId
             IN  /\ CASE lastOp'.op = "handleAddPlant_then" ->
                           /\ IdsOf(plants') = Append(IdsOf(plants), id)
                           /\ SubSeq(plants', 1, Len(plants)) = plants
                      [] lastOp'.op = "handleWaterPlant" ->
                           /\ PlantIn(plants', id).lastWatered = now
                           /\ PlantIn(plants', id).wateringHistory[1] = now
                      [] lastOp'.op = "handleSaveNotes" ->
                           /\ IdsOf(plants') = IdsOf(plants)
                           /\ PlantIn(plants', id).notes \in NoteTexts
                      [] lastOp'.op = "handleDeletePlant" ->
                           IdsOf(plants') = WithoutId(IdsOf(plants), id)
                 /\ error' = error
                 /\ IF quotaExceeded
                      THEN localStorage' = localStorage
                      ELSE JSON_parse(persisted') = plants'
      ]_vars

\* The first of two stored plants has been watered while the storage is
\* full: the list has the watering, the stored document has not, and no
\* error is set
C23_Witness ==
    /\ lastOp.op = "handleWaterPlant"
    /\ quotaExceeded
    /\ Len(plants) = 2
    /\ Len(plants[1].wateringHistory) = 2
    /\ Len(persisted) = 2
    /\ Len(persisted[1].wateringHistory) = 1
    /\ error = ""

\* C24: whenever the health-check modal shows a report, the request that
\* produced the report was made for the plant that is selected; so what
\* Copy to Notes writes into the notes of a plant comes from a report on
\* that plant.
C24_ReportOfSelectedPlant ==
    /\ [](HealthCheckModalRendered /\ ~healthReport.null
            => reportPlant = selectedPlant.id)
    /\ [][ (lastOp'.op = "handleCopyToNotes" /\ plants' # plants)
             => reportPlant = lastOp'.plantId ]_vars

ProviderRequestsInFlight ==
    {c \in calls : c.at \in {"getPlantCareInfo", "getAiHealthCheck"}}

\* C25: isLoading is true exactly while a request to the provider is in
\* flight: the request for care information of handleAddPlant, or the
\* request of a health check whose modal has been opened.
C25_LoadingWhileInFlight == isLoading <=> ProviderRequestsInFlight # {}

---------------------------------------------------------------------------
(* The copy of the plant held by the detail view (Spec) *)

---------------------------------------------------------------------------
(* Sessions and accounts (SpecAccount) *)

SessionOps == {"login", "logout", "signup", "updateUser", "renderLoadedPlants"}

\* C27: when the effects have settled, the document stored under the key of
\* the user is the plants list; at a logout the stored document is the list
\* shown, and from a logout to the list shown after the next login no step
\* (logout, login, and the renders of the plants they load) replaces the
\* stored document of a user by another one, so that the list shown after the
\* login is the list shown before the logout.
C27_PersistedListSurvivesRelogin ==
    /\ [](LoggedIn /\ Settled => JSON_parse(persisted) = plants)
    /\ [][ /\ lastOp'.op = "logout" => JSON_parse(persisted) = plants
           /\ (lastOp'.op \in {"login", "logout"}
                 \/ (lastOp'.op = "renderLoadedPlants" /\ lastOp.op \in {"login", "logout"}))
                => \A e \in Emails :
                      localStorage[e].present => localStorage'[e] = localStorage[e]
           /\ (lastOp'.op = "renderLoadedPlants" /\ lastOp.op = "login")
                => plants' = JSON_parse(persisted')
         ]_vars

\* C28: when the user changes the email with updateUser, the plants shown
\* and stored for the user after the change are the plants shown before it.
C28_EmailChangeKeepsPlants ==
    [][ /\ (lastOp'.op = "updateUser" /\ currentUser'.email # currentUser.email)
             => queued'.plants = plants
        /\ (lastOp'.op = "renderLoadedPlants" /\ lastOp.op = "updateUser")
             => plants' = plants /\ JSON_parse(persisted') = plants
      ]_vars

\* C29: every plant shown to the user who is logged in was added in a
\* session of the account of that user, and the list that is loaded for an
\* account that has just signed up is empty.
C29_PlantsOfOwnAccount ==
    /\ [](LoggedIn /\ Settled
            => \A k \in 1..Len(plants) :
                  addedBy[plants[k].id] = AccountOf(currentUser))
    /\ [][ lastOp'.op = "signup" => queued'.plants = <<>> ]_vars

---------------------------------------------------------------------------
(* The sort order of the dashboard (SpecSort) *)

\* daysUntilWatering of a plant at the render that the probe has recorded
DaysAtRender(p) ==
    calculateDaysUntilWatering(p.lastWatered, p.wateringFrequency, probe.at, probe.zone)

DashboardShown == lastOp.op = "sortedPlants"

\* C30: with sort order 'watering' the list shown is a permutation of plants
\* in non-decreasing order of daysUntilWatering, plants with the same number
\* of days in their order of addition (ids are handed out in that order);
\* with 'default' the list shown is plants, in order of addition; a render
\* leaves plants as they are.
C30_SortedByNextWatering ==
    /\ [](DashboardShown =>
            /\ IsPermutation(probe.view, plants)
            /\ \A i, j \in 1..Len(plants) : i < j => plants[i].id < plants[j].id
            /\ sortOrder = "watering" =>
                 \A i, j \in 1..Len(probe.view) :
                    i < j =>
                      \/ DaysAtRender(probe.view[i]) < DaysAtRender(probe.view[j])
                      \/ /\ DaysAtRender(probe.view[i]) = DaysAtRender(probe.view[j])
                         /\ probe.view[i].id < probe.view[j].id
            /\ sortOrder = "default" => probe.view = plants)
    /\ [][lastOp'.op = "sortedPlants" => plants' = plants]_vars

\* Two plants are shown sorted by next watering, the plant added last first;
\* the sort order has been switched before
C30_Witness ==
    /\ DashboardShown
    /\ sortOrder = "watering"
    /\ Len(plants) = 2
    /\ probe.view = <<plants[2], plants[1]>>
    /\ DaysAtRender(plants[2]) < DaysAtRender(plants[1])

=============================================================================
